---- MODULE Spec2Model ----
(***************************************************************************)
(* Military surge detector of src/api/eia.js (lines 113-485): theater      *)
(* resolution, flight classification, rolling activity history, baseline   *)
(* estimation, surge alerts and lazy cleanup.                               *)
(*                                                                         *)
(* Time is in milliseconds, as Date.now() gives it.  All clock reads of    *)
(* one analyzeFlightsForSurge call return the same instant: the call has   *)
(* no suspension point and the clock only advances between calls (Tick).   *)
(* Counts are naturals; averages and surge multiples are exact rationals   *)
(* [n, d] in lowest terms.                                                  *)
(***************************************************************************)
EXTENDS Integers, Sequences, FiniteSets, TLC

VARIABLES
  now,              \* Date.now()
  lastCleanup,      \* let lastCleanup                       (line 200)
  activityHistory,  \* Map<string, TheaterActivity[]>        (line 198)
  activeSurges,     \* Map<string, SurgeAlert>               (line 199)
  newAlerts,        \* return value of the last analyzeFlightsForSurge call
  flights,          \* argument of the last analyzeFlightsForSurge call
  entry,            \* process-wide state when the last call was entered
  swept,            \* process-wide state when cleanupOldHistory returned
  baselineUsed,     \* theater id -> baseline computed for it in the last call
  calledAt,         \* clock reading of the last call
  signal,           \* return value of the last surgeAlertToSignal call
  steps             \* number of steps taken by Next

vars == <<now, lastCleanup, activityHistory, activeSurges, newAlerts, flights,
          entry, swept, baselineUsed, calledAt, signal, steps>>

----------------------------------------------------------------------------
(* Bounds of the model *)

MaxSteps == 4
CapSteps == 3
CapWarmCalls == 198
SignalSteps == 3
SignalWarmCalls == 10
LiveSteps == 1
ResolveSteps == 2
HorizonTicks == 10

----------------------------------------------------------------------------
(* Program constants *)

SURGE_THRESHOLD == 2
BASELINE_WINDOW_HOURS == 48
BASELINE_MIN_SAMPLES == 6
PROXIMITY_RADIUS_KM == 150
CLEANUP_INTERVAL == 60 * 60 * 1000
MAX_HISTORY_HOURS == 72

----------------------------------------------------------------------------
(* Arithmetic helpers: exact rationals for the JavaScript numbers that are *)
(* quotients of counts.                                                     *)

RECURSIVE Gcd(_, _)
Gcd(a, b) == IF b = 0 THEN a ELSE Gcd(b, a % b)

Rat(n, d) == LET g == Gcd(n, d) IN [n |-> n \div g, d |-> d \div g]
RatInt(k) == [n |-> k, d |-> 1]
RatLe(a, b) == a.n * b.d <= b.n * a.d
RatLt(a, b) == a.n * b.d < b.n * a.d
RatMax(a, b) == IF RatLe(a, b) THEN b ELSE a
RatScale(a, k) == Rat(a.n * k, a.d)
RatAdd(a, b) == Rat(a.n * b.d + b.n * a.d, a.d * b.d)
RatSub(a, b) == Rat(a.n * b.d - b.n * a.d, a.d * b.d)
RatMul(a, b) == Rat(a.n * b.n, a.d * b.d)
RatMin(a, b) == IF RatLe(a, b) THEN a ELSE b
\* k / a for a count k and a positive rational a
RatDivInt(k, a) == Rat(k * a.d, a.n)
\* Math.round: the nearest integer, halves rounded up
MathRound(a) == (2 * a.n + a.d) \div (2 * a.d)

\* Array.prototype.reduce((sum, x) => sum + x, 0); the additions are exact on
\* counts, so the sum is taken by halves
RECURSIVE SumRange(_, _, _)
SumRange(s, lo, hi) ==
  IF lo > hi THEN 0
  ELSE IF lo = hi THEN s[lo]
  ELSE SumRange(s, lo, (lo + hi) \div 2) + SumRange(s, ((lo + hi) \div 2) + 1, hi)

Sum(s) == SumRange(s, 1, Len(s))

Range(s) == {s[i] : i \in 1..Len(s)}

----------------------------------------------------------------------------
(* JavaScript Map: entries in insertion order, at most one per key.  set   *)
(* on a present key replaces the value in place, delete removes the entry. *)

MapHas(m, k) == \E i \in 1..Len(m) : m[i].key = k
MapGet(m, k) == m[CHOOSE i \in 1..Len(m) : m[i].key = k].value
MapSet(m, k, v) ==
  IF MapHas(m, k)
    THEN [i \in 1..Len(m) |-> IF m[i].key = k THEN [key |-> k, value |-> v] ELSE m[i]]
    ELSE Append(m, [key |-> k, value |-> v])
MapDelete(m, k) == SelectSeq(m, LAMBDA e : e.key # k)
MapKeys(m) == [i \in 1..Len(m) |-> m[i].key]
MapValues(m) == [i \in 1..Len(m) |-> m[i].value]

\* Set<string>.add followed by Array.from: first occurrences, in order
RECURSIVE SetAddAll(_, _)
SetAddAll(acc, s) ==
  IF s = <<>> THEN acc
  ELSE SetAddAll(IF Head(s) \in Range(acc) THEN acc ELSE Append(acc, Head(s)), Tail(s))

Null == [null |-> TRUE]

----------------------------------------------------------------------------
(* Theater registry *)

THEATERS == <<
  [id |-> "middle-east", name |-> "Middle East / Persian Gulf",
   baseIds |-> <<"al_udeid", "ali_al_salem_air_base", "camp_arifjan", "camp_buehring",
                 "kuwait_naval_base", "naval_support_activity_bahrain", "isa_air_base",
                 "masirah_aira_base", "rafo_thumrait", "al_dhafra_air_base",
                 "port_of_jebel_ali", "fujairah_naval_base", "prince_sultan_air_base",
                 "ain_assad_air_base", "camp_victory",
                 "naval_support_facility_diego_garcia">>,
   centerLat |-> 27, centerLon |-> 50],
  [id |-> "europe-east", name |-> "Eastern Europe",
   baseIds |-> <<"camp_bondsteel", "aitos_logistics_center", "bezmer", "graf_ignatievo">>,
   centerLat |-> 45, centerLon |-> 25],
  [id |-> "europe-west", name |-> "Western Europe",
   baseIds |-> <<"ramstein", "spangdahlem", "usag_stuttgart", "raf_lakenheath",
                 "raf_mildenhall", "aviano">>,
   centerLat |-> 50, centerLon |-> 8],
  [id |-> "pacific-west", name |-> "Western Pacific",
   baseIds |-> <<"kadena_air_base", "camp_fuji", "fleet_activities_okinawa", "yokota",
                 "misawsa", "osan_air_base", "kunsan_ab", "us_army_garrison_humphreys",
                 "andersen_air_force_base">>,
   centerLat |-> 30, centerLon |-> 130],
  [id |-> "africa-horn", name |-> "Horn of Africa",
   baseIds |-> <<"camp_lemonnier", "contingency_location_garoua", "niger_air_base_201">>,
   centerLat |-> 10, centerLon |-> 40] >>

TheaterIds == {THEATERS[i].id : i \in 1..Len(THEATERS)}

\* The base catalog is configuration outside this repository's sources: five
\* bases at whole-degree coordinates, one of them (incirlik) in no theater.
MILITARY_BASES_EXPANDED == <<
  [id |-> "ramstein", name |-> "Ramstein Air Base", lat |-> 49, lon |-> 8],
  [id |-> "spangdahlem", name |-> "Spangdahlem Air Base", lat |-> 50, lon |-> 7],
  [id |-> "al_udeid", name |-> "Al Udeid Air Base", lat |-> 25, lon |-> 51],
  [id |-> "incirlik", name |-> "Incirlik Air Base", lat |-> 37, lon |-> 35],
  [id |-> "naval_support_facility_diego_garcia", name |-> "NSF Diego Garcia",
   lat |-> -7, lon |-> 72] >>

getTheaterForBase(baseId) ==
  IF \E i \in 1..Len(THEATERS) : baseId \in Range(THEATERS[i].baseIds)
    THEN THEATERS[CHOOSE i \in 1..Len(THEATERS) :
                    /\ baseId \in Range(THEATERS[i].baseIds)
                    /\ \A j \in 1..(i - 1) : baseId \notin Range(THEATERS[j].baseIds)]
    ELSE Null

----------------------------------------------------------------------------
(* Geodesy.  The haversine distance (R = 6371 km), rounded to the nearest  *)
(* kilometre, tabulated for the coordinates the model's flights take       *)
(* against every base and theater center.                                   *)

HaversineKm ==
     <<49, 7, 49, 8>> :> 73 @@ <<49, 7, 50, 7>> :> 111 @@ <<49, 7, 25, 51>> :> 4637 @@ <<49, 7, 37, 35>> :> 2617 @@ <<49, 7, -7, 72>> :> 8834
  @@ <<49, 7, 27, 50>> :> 4407 @@ <<49, 7, 45, 25>> :> 1432 @@ <<49, 7, 50, 8>> :> 133 @@ <<49, 7, 30, 130>> :> 9575 @@ <<49, 7, 10, 40>> :> 5305
  @@ <<25, 52, 49, 8>> :> 4637 @@ <<25, 52, 50, 7>> :> 4741 @@ <<25, 52, 25, 51>> :> 101 @@ <<25, 52, 37, 35>> :> 2093 @@ <<25, 52, -7, 72>> :> 4165
  @@ <<25, 52, 27, 50>> :> 299 @@ <<25, 52, 45, 25>> :> 3287 @@ <<25, 52, 50, 8>> :> 4673 @@ <<25, 52, 30, 130>> :> 7562 @@ <<25, 52, 10, 40>> :> 2095
  @@ <<48, 16, 49, 8>> :> 600 @@ <<48, 16, 50, 7>> :> 693 @@ <<48, 16, 25, 51>> :> 3983 @@ <<48, 16, 37, 35>> :> 1971 @@ <<48, 16, -7, 72>> :> 8194
  @@ <<48, 16, 27, 50>> :> 3751 @@ <<48, 16, 45, 25>> :> 765 @@ <<48, 16, 50, 8>> :> 624 @@ <<48, 16, 30, 130>> :> 9139 @@ <<48, 16, 10, 40>> :> 4784
  @@ <<0, -30, 49, 8>> :> 6546 @@ <<0, -30, 50, 7>> :> 6573 @@ <<0, -30, 25, 51>> :> 9101 @@ <<0, -30, 37, 35>> :> 7814 @@ <<0, -30, -7, 72>> :> 11332
  @@ <<0, -30, 27, 50>> :> 9018 @@ <<0, -30, 45, 25>> :> 7347 @@ <<0, -30, 50, 8>> :> 6624 @@ <<0, -30, 30, 130>> :> 16064 @@ <<0, -30, 10, 40>> :> 7819
  @@ <<-7, 73, 49, 8>> :> 8834 @@ <<-7, 73, 50, 7>> :> 8944 @@ <<-7, 73, 25, 51>> :> 4282 @@ <<-7, 73, 37, 35>> :> 6287 @@ <<-7, 73, -7, 72>> :> 110
  @@ <<-7, 73, 27, 50>> :> 4520 @@ <<-7, 73, 45, 25>> :> 7500 @@ <<-7, 73, 50, 8>> :> 8879 @@ <<-7, 73, 30, 130>> :> 7335 @@ <<-7, 73, 10, 40>> :> 4114
  @@ <<37, 36, 49, 8>> :> 2617 @@ <<37, 36, 50, 7>> :> 2724 @@ <<37, 36, 25, 51>> :> 1951 @@ <<37, 36, 37, 35>> :> 89 @@ <<37, 36, -7, 72>> :> 6159
  @@ <<37, 36, 27, 50>> :> 1723 @@ <<37, 36, 45, 25>> :> 1280 @@ <<37, 36, 50, 8>> :> 2657 @@ <<37, 36, 30, 130>> :> 8380 @@ <<37, 36, 10, 40>> :> 3029

distanceKm(lat1, lon1, lat2, lon2) == HaversineKm[<<lat1, lon1, lat2, lon2>>]

\* Array.prototype.sort by ascending distance (stable)
RECURSIVE SortByDistance(_)
SortByDistance(s) ==
  IF s = <<>> THEN <<>>
  ELSE LET rest == SortByDistance(Tail(s))
           k == Cardinality({i \in 1..Len(rest) : rest[i].distance < Head(s).distance})
       IN SubSeq(rest, 1, k) \o <<Head(s)>> \o SubSeq(rest, k + 1, Len(rest))

findNearbyBases(lat, lon) ==
  LET all == [i \in 1..Len(MILITARY_BASES_EXPANDED) |->
                [baseId |-> MILITARY_BASES_EXPANDED[i].id,
                 baseName |-> MILITARY_BASES_EXPANDED[i].name,
                 distance |-> distanceKm(lat, lon, MILITARY_BASES_EXPANDED[i].lat,
                                         MILITARY_BASES_EXPANDED[i].lon)]]
  IN SortByDistance(SelectSeq(all, LAMBDA b : b.distance <= PROXIMITY_RADIUS_KM))

----------------------------------------------------------------------------
(* Flight classifier.  A callsign is its sequence of characters.           *)

TRANSPORT_CALLSIGN_PATTERNS == <<
  <<"R", "C", "H">>, <<"R", "E", "A", "C", "H">>, <<"M", "O", "O", "S", "E">>,
  <<"H", "E", "R", "K", "Y">>, <<"E", "V", "A", "C">>,
  <<"D", "U", "S", "T", "O", "F", "F">> >>

LowerToUpper ==
  "a" :> "A" @@ "c" :> "C" @@ "d" :> "D" @@ "e" :> "E" @@ "f" :> "F" @@ "h" :> "H"
  @@ "i" :> "I" @@ "k" :> "K" @@ "m" :> "M" @@ "o" :> "O" @@ "p" :> "P" @@ "r" :> "R"
  @@ "s" :> "S" @@ "t" :> "T" @@ "u" :> "U" @@ "v" :> "V" @@ "y" :> "Y"

toUpperCase(s) ==
  [i \in 1..Len(s) |-> IF s[i] \in DOMAIN LowerToUpper THEN LowerToUpper[s[i]] ELSE s[i]]

\* /^P/i.test(callsign)
PatternTest(p, callsign) ==
  /\ Len(callsign) >= Len(p)
  /\ toUpperCase(SubSeq(callsign, 1, Len(p))) = p

isTransportFlight(flight) ==
  \/ flight.aircraftType = "transport"
  \/ flight.aircraftType = "tanker"
  \/ LET callsign == toUpperCase(flight.callsign)
     IN \E i \in 1..Len(TRANSPORT_CALLSIGN_PATTERNS) :
          PatternTest(TRANSPORT_CALLSIGN_PATTERNS[i], callsign)

\* Mutant: the declared fighter and recon types are tested before the transport rule
classifyFlight_TypeFirst(flight) ==
  IF flight.aircraftType = "fighter" THEN "fighter"
  ELSE IF flight.aircraftType = "reconnaissance" \/ flight.aircraftType = "awacs" THEN "recon"
  ELSE IF isTransportFlight(flight) THEN "transport"
  ELSE "other"

classifyFlight(flight) ==
  IF isTransportFlight(flight) THEN "transport"
  ELSE IF flight.aircraftType = "fighter" THEN "fighter"
  ELSE IF flight.aircraftType = "reconnaissance" \/ flight.aircraftType = "awacs" THEN "recon"
  ELSE "other"

\* Mutant: the bases are not consulted, the theater centers decide alone
getTheaterForFlight_CentersOnly(flight) ==
  LET inRange == SelectSeq(THEATERS, LAMBDA t :
                   distanceKm(flight.lat, flight.lon, t.centerLat, t.centerLon) < 1500)
  IN IF inRange # <<>> THEN inRange[1] ELSE Null

getTheaterForFlight(flight) ==
  LET nearbyBases == findNearbyBases(flight.lat, flight.lon)
      owned == SelectSeq(nearbyBases, LAMBDA b : getTheaterForBase(b.baseId) # Null)
      inRange == SelectSeq(THEATERS, LAMBDA t :
                   distanceKm(flight.lat, flight.lon, t.centerLat, t.centerLon) < 1500)
  IN IF owned # <<>> THEN getTheaterForBase(owned[1].baseId)
     ELSE IF inRange # <<>> THEN inRange[1]
     ELSE Null

----------------------------------------------------------------------------
(* Baseline estimator *)

HistoryOf(history, theaterId) ==
  IF MapHas(history, theaterId) THEN MapGet(history, theaterId) ELSE <<>>

\* Mutant: the defaults also returned for exactly BASELINE_MIN_SAMPLES samples
calculateBaseline_Inclusive(history, theaterId, t) ==
  LET cutoff == t - BASELINE_WINDOW_HOURS * 60 * 60 * 1000
      relevant == SelectSeq(HistoryOf(history, theaterId), LAMBDA h : h.timestamp >= cutoff)
      n == Len(relevant)
      avgTransport == Rat(Sum([i \in 1..n |-> relevant[i].transportCount]), n)
      avgFighter == Rat(Sum([i \in 1..n |-> relevant[i].fighterCount]), n)
      avgRecon == Rat(Sum([i \in 1..n |-> relevant[i].reconCount]), n)
  IN IF n <= BASELINE_MIN_SAMPLES
       THEN [transport |-> RatInt(3), fighter |-> RatInt(2), recon |-> RatInt(1)]
       ELSE [transport |-> RatMax(RatInt(2), avgTransport),
             fighter |-> RatMax(RatInt(1), avgFighter),
             recon |-> RatMax(RatInt(1), avgRecon)]

calculateBaseline(history, theaterId, t) ==
  LET cutoff == t - BASELINE_WINDOW_HOURS * 60 * 60 * 1000
      relevant == SelectSeq(HistoryOf(history, theaterId), LAMBDA h : h.timestamp >= cutoff)
      n == Len(relevant)
      avgTransport == Rat(Sum([i \in 1..n |-> relevant[i].transportCount]), n)
      avgFighter == Rat(Sum([i \in 1..n |-> relevant[i].fighterCount]), n)
      avgRecon == Rat(Sum([i \in 1..n |-> relevant[i].reconCount]), n)
  IN IF n < BASELINE_MIN_SAMPLES
       THEN [transport |-> RatInt(3), fighter |-> RatInt(2), recon |-> RatInt(1)]
       ELSE [transport |-> RatMax(RatInt(2), avgTransport),
             fighter |-> RatMax(RatInt(1), avgFighter),
             recon |-> RatMax(RatInt(1), avgRecon)]

----------------------------------------------------------------------------
(* Lazy cleanup.  st is the process-wide state                             *)
(* [lastCleanup, activityHistory, activeSurges]; t is Date.now().           *)

\* Mutant: the sweep gated by two cleanup intervals
CleanupDue_TwoHours(st, t) == ~(t - st.lastCleanup < 2 * CLEANUP_INTERVAL)

\* Mutant: the interval compared with <=, so a call exactly one hour later returns
CleanupDue_Late(st, t) == ~(t - st.lastCleanup <= CLEANUP_INTERVAL)

CleanupDue(st, t) == ~(t - st.lastCleanup < CLEANUP_INTERVAL)

\* Mutant: the filtered list is always stored, also when it is empty
RECURSIVE PruneHistory_KeepsEmpty(_, _)
PruneHistory_KeepsEmpty(history, cutoff) ==
  IF history = <<>> THEN <<>>
  ELSE <<[key |-> Head(history).key,
          value |-> SelectSeq(Head(history).value, LAMBDA h : h.timestamp >= cutoff)]>>
       \o PruneHistory_KeepsEmpty(Tail(history), cutoff)

RECURSIVE PruneHistory(_, _)
PruneHistory(history, cutoff) ==
  IF history = <<>> THEN <<>>
  ELSE LET filtered == SelectSeq(Head(history).value, LAMBDA h : h.timestamp >= cutoff)
           rest == PruneHistory(Tail(history), cutoff)
       IN IF Len(filtered) = 0 THEN rest
          ELSE <<[key |-> Head(history).key, value |-> filtered]>> \o rest

\* Mutant: the eviction age taken from the history window instead of two hours
SurgeExpired_HistoryWindow(surge, t) ==
  t - surge.lastUpdated > MAX_HISTORY_HOURS * 60 * 60 * 1000

SurgeExpired(surge, t) == t - surge.lastUpdated > 2 * 60 * 60 * 1000

\* Mutant: the eviction pass spares the fighter alerts
EvictSurges_AirliftOnly(surges, t) ==
  SelectSeq(surges, LAMBDA e : ~(SurgeExpired(e.value, t) /\ e.value.type = "airlift"))

EvictSurges(surges, t) == SelectSeq(surges, LAMBDA e : ~SurgeExpired(e.value, t))

\* Mutant: the sweep prunes the history and leaves the alerts alone
cleanupOldHistory_HistoryOnly(st, t) ==
  IF ~CleanupDue(st, t) THEN st
  ELSE [lastCleanup |-> t,
        activityHistory |->
          PruneHistory(st.activityHistory, t - MAX_HISTORY_HOURS * 60 * 60 * 1000),
        activeSurges |-> st.activeSurges]

\* lines 282-303
cleanupOldHistory(st, t) ==
  IF ~CleanupDue(st, t) THEN st
  ELSE [lastCleanup |-> t,
        activityHistory |->
          PruneHistory(st.activityHistory, t - MAX_HISTORY_HOURS * 60 * 60 * 1000),
        activeSurges |-> EvictSurges(st.activeSurges, t)]

----------------------------------------------------------------------------
(* Inputs: flight lists built from segments [place, t, f, r, o], that is   *)
(* t transport, f fighter, r recon and o other flights at one coordinate.   *)

Rhine == <<49, 7>>      \* 73 km from ramstein
Gulf == <<25, 52>>      \* 101 km from al_udeid
Vienna == <<48, 16>>    \* no base in range, two theater centers within 1500 km
Atlantic == <<0, -30>>  \* no base and no theater center in range
Chagos == <<-7, 73>>    \* 110 km from diego garcia, every center beyond 1500 km
Adana == <<37, 36>>     \* 89 km from incirlik, a base of no theater

FLIGHT_IDS == <<"f01", "f02", "f03", "f04", "f05", "f06", "f07", "f08", "f09", "f10",
                "f11", "f12", "f13", "f14", "f15", "f16", "f17", "f18", "f19", "f20",
                "f21", "f22", "f23", "f24">>

Transport(i, place) ==
  IF i = 1 THEN [callsign |-> <<"r", "c", "h", "1">>, aircraftType |-> "unknown",
                 aircraftModel |-> "", lat |-> place[1], lon |-> place[2]]
  ELSE IF i = 2 THEN [callsign |-> <<"S", "H", "E", "L", "L">>, aircraftType |-> "tanker",
                      aircraftModel |-> "KC-135", lat |-> place[1], lon |-> place[2]]
  ELSE IF i = 4 THEN [callsign |-> <<"M", "o", "o", "s", "e">>, aircraftType |-> "fighter",
                      aircraftModel |-> "F-15", lat |-> place[1], lon |-> place[2]]
  ELSE IF i = 5 THEN [callsign |-> <<"e", "v", "a", "c", "7">>,
                      aircraftType |-> "reconnaissance",
                      aircraftModel |-> "", lat |-> place[1], lon |-> place[2]]
  ELSE [callsign |-> <<"R", "E", "A", "C", "H">>, aircraftType |-> "transport",
        aircraftModel |-> "C-17", lat |-> place[1], lon |-> place[2]]

Fighter(i, place) ==
  [callsign |-> <<"V", "I", "P", "E", "R">>, aircraftType |-> "fighter",
   aircraftModel |-> IF i = 1 THEN "" ELSE "F-16", lat |-> place[1], lon |-> place[2]]

Recon(i, place) ==
  IF i = 1 THEN [callsign |-> <<"O", "L", "I", "V", "E">>, aircraftType |-> "reconnaissance",
                 aircraftModel |-> "RC-135", lat |-> place[1], lon |-> place[2]]
  ELSE [callsign |-> <<"S", "K", "Y">>, aircraftType |-> "awacs",
        aircraftModel |-> "E-3", lat |-> place[1], lon |-> place[2]]

Other(i, place) ==
  IF i = 1 THEN [callsign |-> <<"D", "O", "O", "M">>, aircraftType |-> "bomber",
                 aircraftModel |-> "B-52", lat |-> place[1], lon |-> place[2]]
  ELSE [callsign |-> <<"R", "E", "A", "P">>, aircraftType |-> "",
        aircraftModel |-> "", lat |-> place[1], lon |-> place[2]]

SegmentFlights(seg) ==
  [i \in 1..seg.t |-> Transport(i, seg.place)]
  \o [i \in 1..seg.f |-> Fighter(i, seg.place)]
  \o [i \in 1..seg.r |-> Recon(i, seg.place)]
  \o [i \in 1..seg.o |-> Other(i, seg.place)]

RECURSIVE Concat(_)
Concat(ss) == IF ss = <<>> THEN <<>> ELSE Head(ss) \o Concat(Tail(ss))

Seg(place, t, f, r, o) == [place |-> place, t |-> t, f |-> f, r |-> r, o |-> o]

\* The flight list of a sequence of segments, ids given by position
FlightList(segs) ==
  LET fs == Concat([i \in 1..Len(segs) |-> SegmentFlights(segs[i])])
  IN [i \in 1..Len(fs) |->
        [id |-> FLIGHT_IDS[i], callsign |-> fs[i].callsign,
         aircraftType |-> fs[i].aircraftType, aircraftModel |-> fs[i].aircraftModel,
         lat |-> fs[i].lat, lon |-> fs[i].lon]]

Quiet == FlightList(<<Seg(Rhine, 1, 1, 1, 1)>>)
Airlift6 == FlightList(<<Seg(Rhine, 6, 0, 0, 0)>>)
Surge54 == FlightList(<<Seg(Rhine, 5, 4, 0, 0)>>)

Batches ==
  { <<>>,
    Quiet,
    Airlift6,
    Surge54,
    FlightList(<<Seg(Rhine, 4, 3, 0, 0)>>),
    FlightList(<<Seg(Gulf, 6, 4, 0, 0), Seg(Atlantic, 1, 0, 0, 0), Seg(Rhine, 12, 0, 0, 0)>>),
    FlightList(<<Seg(Vienna, 1, 0, 0, 0), Seg(Adana, 0, 1, 0, 0), Seg(Chagos, 0, 0, 1, 0),
                 Seg(Atlantic, 0, 1, 0, 0)>>),
    FlightList(<<Seg(Atlantic, 6, 4, 0, 0)>>) }

\* Clock advances between calls
Advances == { 30 * 60 * 1000, 60 * 60 * 1000, 2 * 60 * 60 * 1000,
              48 * 60 * 60 * 1000, 72 * 60 * 60 * 1000 }

\* Flights found by the polled detector: quiet, and the two that raise alerts
LiveBatches == { Quiet, Airlift6, Surge54 }

----------------------------------------------------------------------------
(* Analysis cycle *)

\* Mutant: a flight without a theater is filed under the first theater
RECURSIVE GroupByTheater_FilesUnresolved(_, _)
GroupByTheater_FilesUnresolved(theaterFlights, fs) ==
  IF fs = <<>> THEN theaterFlights
  ELSE LET resolved == getTheaterForFlight(Head(fs))
           theater == IF resolved = Null THEN THEATERS[1] ELSE resolved
           existing == IF MapHas(theaterFlights, theater.id)
                         THEN MapGet(theaterFlights, theater.id) ELSE <<>>
       IN GroupByTheater_FilesUnresolved(
            MapSet(theaterFlights, theater.id, Append(existing, Head(fs))), Tail(fs))

\* lines 308-315: flights grouped by resolved theater, unresolved ones skipped
RECURSIVE GroupByTheater(_, _)
GroupByTheater(theaterFlights, fs) ==
  IF fs = <<>> THEN theaterFlights
  ELSE LET theater == getTheaterForFlight(Head(fs))
       IN IF theater = Null THEN GroupByTheater(theaterFlights, Tail(fs))
          ELSE LET existing == IF MapHas(theaterFlights, theater.id)
                                 THEN MapGet(theaterFlights, theater.id) ELSE <<>>
               IN GroupByTheater(MapSet(theaterFlights, theater.id,
                                        Append(existing, Head(fs))), Tail(fs))

CountClass(list, class) == Len(SelectSeq(list, LAMBDA f : classifyFlight(f) = class))

TypeKey(flight) ==
  IF flight.aircraftModel # "" THEN flight.aircraftModel
  ELSE IF flight.aircraftType # "" THEN flight.aircraftType
  ELSE "unknown"

RECURSIVE AircraftTypes(_, _)
AircraftTypes(acc, list) ==
  IF list = <<>> THEN acc
  ELSE LET typeKey == TypeKey(Head(list))
           old == IF MapHas(acc, typeKey) THEN MapGet(acc, typeKey) ELSE 0
       IN AircraftTypes(MapSet(acc, typeKey, old + 1), Tail(list))

RECURSIVE NearbyBasesSet(_, _)
NearbyBasesSet(acc, list) ==
  IF list = <<>> THEN acc
  ELSE LET nearby == findNearbyBases(Head(list).lat, Head(list).lon)
           top == SubSeq(nearby, 1, IF Len(nearby) < 3 THEN Len(nearby) ELSE 3)
       IN NearbyBasesSet(SetAddAll(acc, [i \in 1..Len(top) |-> top[i].baseName]),
                         Tail(list))

\* lines 324-343: what one theater's flights of a cycle amount to
TheaterTally(theaterId, list) ==
  [theaterId |-> theaterId,
   transportCount |-> CountClass(list, "transport"),
   fighterCount |-> CountClass(list, "fighter"),
   reconCount |-> CountClass(list, "recon"),
   totalMilitary |-> Len(list),
   flightIds |-> [i \in 1..Len(list) |-> list[i].id],
   aircraftTypes |-> AircraftTypes(<<>>, list),
   nearbyBases |-> NearbyBasesSet(<<>>, list)]

\* Mutant: a tally, of no flights, also for every theater without traffic
Aggregate_EveryTheater(fs) ==
  LET theaterFlights == GroupByTheater(<<>>, fs)
      idle == SelectSeq([k \in 1..Len(THEATERS) |-> [key |-> THEATERS[k].id, value |-> <<>>]],
                        LAMBDA e : ~MapHas(theaterFlights, e.key))
      every == theaterFlights \o idle
  IN [i \in 1..Len(every) |-> TheaterTally(every[i].key, every[i].value)]

\* The tallies of a flight list, one per theater in the order of theaterFlights
Aggregate(fs) ==
  LET theaterFlights == GroupByTheater(<<>>, fs)
  IN [i \in 1..Len(theaterFlights) |->
        TheaterTally(theaterFlights[i].key, theaterFlights[i].value)]

\* Aggregate depends on the flight list alone: it is computed once for each
\* flight list the model feeds in.
AggregateOfBatch == [fs \in Batches |-> Aggregate(fs)]
Aggregated(fs) == IF fs \in Batches THEN AggregateOfBatch[fs] ELSE Aggregate(fs)

\* lines 345-353
Activity(tally, t) ==
  [theaterId |-> tally.theaterId,
   timestamp |-> t,
   transportCount |-> tally.transportCount,
   fighterCount |-> tally.fighterCount,
   reconCount |-> tally.reconCount,
   totalMilitary |-> tally.totalMilitary,
   flightIds |-> tally.flightIds]

\* Mutant: the snapshot put at the front of the history
PushCapped_Unshift(history, activity) ==
  LET pushed == <<activity>> \o history
  IN IF Len(pushed) > 200 THEN SubSeq(pushed, 1, 200) ELSE pushed

\* Mutant: pop instead of shift on overflow
PushCapped_Pop(history, activity) ==
  LET pushed == Append(history, activity)
  IN IF Len(pushed) > 200 THEN SubSeq(pushed, 1, 200) ELSE pushed

\* lines 356-357: push, then shift when longer than 200
PushCapped(history, activity) ==
  LET pushed == Append(history, activity)
  IN IF Len(pushed) > 200 THEN Tail(pushed) ELSE pushed

SurgeId(type, theaterId) == type \o "-" \o theaterId

\* Mutant: the airlift test keeps the count floor and drops the baseline
AirliftTriggers_CountOnly(transportCount, baseline) ==
  transportCount >= 5

\* Mutant: the threshold compared strictly
AirliftTriggers_Strict(transportCount, baseline) ==
  /\ RatLt(RatScale(baseline.transport, SURGE_THRESHOLD), RatInt(transportCount))
  /\ transportCount >= 5

AirliftTriggers(transportCount, baseline) ==
  /\ RatLe(RatScale(baseline.transport, SURGE_THRESHOLD), RatInt(transportCount))
  /\ transportCount >= 5

FighterTriggers(fighterCount, baseline) ==
  /\ RatLe(RatScale(baseline.fighter, SURGE_THRESHOLD), RatInt(fighterCount))
  /\ fighterCount >= 4

\* Mutant: the fighter alert built from a copy of the airlift literal
NewAlert_AlwaysAirlift(type, theater, count, base, aircraftTypes, nearbyBases, t) ==
  [id |-> SurgeId(type, theater.id),
   theater |-> theater,
   type |-> "airlift",
   currentCount |-> count,
   baselineCount |-> MathRound(base),
   surgeMultiple |-> RatDivInt(count, base),
   aircraftTypes |-> aircraftTypes,
   nearbyBases |-> nearbyBases,
   firstDetected |-> t,
   lastUpdated |-> t]

\* lines 374-385 and 396-407
NewAlert(type, theater, count, base, aircraftTypes, nearbyBases, t) ==
  [id |-> SurgeId(type, theater.id),
   theater |-> theater,
   type |-> type,
   currentCount |-> count,
   baselineCount |-> MathRound(base),
   surgeMultiple |-> RatDivInt(count, base),
   aircraftTypes |-> aircraftTypes,
   nearbyBases |-> nearbyBases,
   firstDetected |-> t,
   lastUpdated |-> t]

\* Mutant: the existing alert replaced by a freshly built one
UpdateAirlift_Replaces(existing, transportCount, base, aircraftTypes, nearbyBases, t) ==
  [existing EXCEPT !.currentCount = transportCount,
                   !.baselineCount = MathRound(base),
                   !.surgeMultiple = RatDivInt(transportCount, base),
                   !.aircraftTypes = aircraftTypes,
                   !.nearbyBases = nearbyBases,
                   !.firstDetected = t,
                   !.lastUpdated = t]

\* lines 368-372
UpdateAirlift(existing, transportCount, base, aircraftTypes, nearbyBases, t) ==
  [existing EXCEPT !.currentCount = transportCount,
                   !.surgeMultiple = RatDivInt(transportCount, base),
                   !.aircraftTypes = aircraftTypes,
                   !.nearbyBases = nearbyBases,
                   !.lastUpdated = t]

\* Mutant: the updated alert is pushed to the returned list as well
AirliftCheck_ReturnsUpdated(acc, theater, transportCount, baseline, aircraftTypes, nearbyBases, t) ==
  LET surgeId == SurgeId("airlift", theater.id)
      alert == IF MapHas(acc.activeSurges, surgeId)
                 THEN UpdateAirlift(MapGet(acc.activeSurges, surgeId), transportCount,
                                    baseline.transport, aircraftTypes, nearbyBases, t)
                 ELSE NewAlert("airlift", theater, transportCount, baseline.transport,
                               aircraftTypes, nearbyBases, t)
  IN IF ~AirliftTriggers(transportCount, baseline) THEN acc
     ELSE [acc EXCEPT !.activeSurges = MapSet(@, surgeId, alert),
                      !.newAlerts = Append(@, alert)]

\* Mutant: the airlift alert is cleared when the airlift test fails
AirliftCheck_ClearsWhenCalm(acc, theater, transportCount, baseline, aircraftTypes, nearbyBases, t) ==
  LET surgeId == SurgeId("airlift", theater.id)
  IN IF ~AirliftTriggers(transportCount, baseline)
       THEN [acc EXCEPT !.activeSurges = MapDelete(@, surgeId)]
     ELSE IF MapHas(acc.activeSurges, surgeId)
       THEN [acc EXCEPT !.activeSurges =
               MapSet(@, surgeId,
                      UpdateAirlift(MapGet(acc.activeSurges, surgeId), transportCount,
                                    baseline.transport, aircraftTypes, nearbyBases, t))]
       ELSE LET alert == NewAlert("airlift", theater, transportCount, baseline.transport,
                                  aircraftTypes, nearbyBases, t)
            IN [acc EXCEPT !.activeSurges = MapSet(@, surgeId, alert),
                           !.newAlerts = Append(@, alert)]

\* lines 362-389.  acc is the loop accumulator of AfterCleanup.
AirliftCheck(acc, theater, transportCount, baseline, aircraftTypes, nearbyBases, t) ==
  LET surgeId == SurgeId("airlift", theater.id)
  IN IF ~AirliftTriggers(transportCount, baseline) THEN acc
     ELSE IF MapHas(acc.activeSurges, surgeId)
       THEN [acc EXCEPT !.activeSurges =
               MapSet(@, surgeId,
                      UpdateAirlift(MapGet(acc.activeSurges, surgeId), transportCount,
                                    baseline.transport, aircraftTypes, nearbyBases, t))]
       ELSE LET alert == NewAlert("airlift", theater, transportCount, baseline.transport,
                                  aircraftTypes, nearbyBases, t)
            IN [acc EXCEPT !.activeSurges = MapSet(@, surgeId, alert),
                           !.newAlerts = Append(@, alert)]

\* Mutant: the fighter path refreshes an existing alert as the airlift path does
FighterCheck_Refreshes(acc, theater, fighterCount, baseline, aircraftTypes, nearbyBases, t) ==
  LET surgeId == SurgeId("fighter", theater.id)
  IN IF ~FighterTriggers(fighterCount, baseline) THEN acc
     ELSE IF MapHas(acc.activeSurges, surgeId)
       THEN [acc EXCEPT !.activeSurges =
               MapSet(@, surgeId,
                      UpdateAirlift(MapGet(acc.activeSurges, surgeId), fighterCount,
                                    baseline.fighter, aircraftTypes, nearbyBases, t))]
       ELSE LET alert == NewAlert("fighter", theater, fighterCount, baseline.fighter,
                                  aircraftTypes, nearbyBases, t)
            IN [acc EXCEPT !.activeSurges = MapSet(@, surgeId, alert),
                           !.newAlerts = Append(@, alert)]

\* lines 391-411
FighterCheck(acc, theater, fighterCount, baseline, aircraftTypes, nearbyBases, t) ==
  LET surgeId == SurgeId("fighter", theater.id)
  IN IF ~FighterTriggers(fighterCount, baseline) THEN acc
     ELSE IF MapHas(acc.activeSurges, surgeId) THEN acc
     ELSE LET alert == NewAlert("fighter", theater, fighterCount, baseline.fighter,
                                aircraftTypes, nearbyBases, t)
          IN [acc EXCEPT !.activeSurges = MapSet(@, surgeId, alert),
                         !.newAlerts = Append(@, alert)]

\* lines 355-357: the snapshot pushed onto its theater's history
RecordActivity(acc, activity) ==
  [acc EXCEPT !.activityHistory =
     MapSet(@, activity.theaterId,
            PushCapped(HistoryOf(@, activity.theaterId), activity))]

\* Mutant: the fighter check made the else branch of the airlift check
DetectSurges_ElseIf(acc, theater, activity, baseline, tally, t) ==
  IF AirliftTriggers(activity.transportCount, baseline)
    THEN AirliftCheck([acc EXCEPT !.baselines = MapSet(@, theater.id, baseline)],
                      theater, activity.transportCount, baseline,
                      tally.aircraftTypes, tally.nearbyBases, t)
    ELSE FighterCheck([acc EXCEPT !.baselines = MapSet(@, theater.id, baseline)],
                      theater, activity.fighterCount, baseline,
                      tally.aircraftTypes, tally.nearbyBases, t)

\* lines 360-411: the airlift check, then the fighter check, on one baseline
DetectSurges(acc, theater, activity, baseline, tally, t) ==
  FighterCheck(
    AirliftCheck([acc EXCEPT !.baselines = MapSet(@, theater.id, baseline)],
                 theater, activity.transportCount, baseline,
                 tally.aircraftTypes, tally.nearbyBases, t),
    theater, activity.fighterCount, baseline, tally.aircraftTypes, tally.nearbyBases, t)

\* lines 359-411 for a theater whose snapshot is stored in acc
AnalyzeTheater(acc, tally, t) ==
  DetectSurges(acc,
               THEATERS[CHOOSE i \in 1..Len(THEATERS) : THEATERS[i].id = tally.theaterId],
               Activity(tally, t),
               calculateBaseline(acc.activityHistory, tally.theaterId, t),
               tally, t)

\* Mutant: the baseline estimated before the cycle's snapshot is pushed
ProcessTheater_BaselineFirst(acc, tally, t) ==
  IF tally.theaterId \notin TheaterIds THEN acc
  ELSE DetectSurges(RecordActivity(acc, Activity(tally, t)),
                    THEATERS[CHOOSE i \in 1..Len(THEATERS) : THEATERS[i].id = tally.theaterId],
                    Activity(tally, t),
                    calculateBaseline(acc.activityHistory, tally.theaterId, t),
                    tally, t)

\* lines 320-412, one iteration of the loop over theaterFlights
ProcessTheater(acc, tally, t) ==
  IF tally.theaterId \notin TheaterIds THEN acc
  ELSE AnalyzeTheater(RecordActivity(acc, Activity(tally, t)), tally, t)

RECURSIVE ProcessTheaters(_, _, _)
ProcessTheaters(acc, tallies, t) ==
  IF tallies = <<>> THEN acc
  ELSE CHOOSE r \in { ProcessTheaters(next, Tail(tallies), t) :
                        next \in { ProcessTheater(acc, Head(tallies), t) } } : TRUE

\* The loop's accumulator when cleanupOldHistory has returned `cleaned`
AfterCleanup(cleaned) ==
  [lastCleanup |-> cleaned.lastCleanup,
   activityHistory |-> cleaned.activityHistory,
   activeSurges |-> cleaned.activeSurges,
   newAlerts |-> <<>>,
   swept |-> cleaned,
   baselines |-> <<>>]

\* lines 305-415.  The result carries the state left behind (lastCleanup,
\* activityHistory, activeSurges), the return value (newAlerts) and what the
\* call saw on the way (swept, baselines).
analyzeFlightsForSurge(st, fs, t) ==
  ProcessTheaters(AfterCleanup(cleanupOldHistory(st, t)), Aggregated(fs), t)

\* lines 439-443, without the pictograph that starts each label
typeLabels ==
  [airlift |-> "Military Airlift Surge",
   fighter |-> "Fighter Deployment Surge",
   reconnaissance |-> "Reconnaissance Surge"]

\* Array.prototype.sort by descending count (stable)
RECURSIVE SortByCountDesc(_)
SortByCountDesc(s) ==
  IF s = <<>> THEN <<>>
  ELSE CHOOSE r \in
         { SubSeq(rest, 1, Cardinality({i \in 1..Len(rest) : rest[i].value >= Head(s).value}))
             \o <<Head(s)>>
             \o SubSeq(rest, Cardinality({i \in 1..Len(rest) : rest[i].value >= Head(s).value}) + 1,
                       Len(rest)) :
           rest \in { SortByCountDesc(Tail(s)) } } : TRUE

FirstThree(s) == SubSeq(s, 1, IF Len(s) < 3 THEN Len(s) ELSE 3)

\* Mutant: the tiers start above 4 and above 3
Severity_Strict(surgeMultiple) ==
  IF RatLt(RatInt(4), surgeMultiple) THEN "critical"
  ELSE IF RatLt(RatInt(3), surgeMultiple) THEN "high"
  ELSE "medium"

\* lines 451-452
Severity(surgeMultiple) ==
  IF RatLe(RatInt(4), surgeMultiple) THEN "critical"
  ELSE IF RatLe(RatInt(3), surgeMultiple) THEN "high"
  ELSE "medium"

\* line 454: Math.min(0.95, 0.6 + (surgeMultiple - 2) * 0.1), in exact arithmetic
Confidence(surgeMultiple) ==
  RatMin(Rat(95, 100),
         RatAdd(Rat(6, 10), RatMul(RatSub(surgeMultiple, RatInt(2)), Rat(1, 10))))

\* lines 456-464
SignalMetadata(surge) ==
  [theaterId |-> surge.theater.id,
   surgeType |-> surge.type,
   currentCount |-> surge.currentCount,
   baselineCount |-> surge.baselineCount,
   surgeMultiple |-> surge.surgeMultiple,
   aircraftTypes |-> surge.aircraftTypes,
   nearbyBases |-> surge.nearbyBases]

\* lines 425-485.  The id and the title are kept as their parts and the
\* description as the values its text is formatted from.
surgeAlertToSignal(surge) ==
  [id |-> <<"surge", surge.id, surge.firstDetected>>,
   type |-> "military_surge",
   source |-> "Military Flight Tracking",
   title |-> <<typeLabels[surge.type], surge.theater.name>>,
   description |->
     [currentCount |-> surge.currentCount,
      type |-> surge.type,
      surgeMultiple |-> surge.surgeMultiple,
      aircraftList |-> FirstThree(SortByCountDesc(surge.aircraftTypes)),
      near |-> FirstThree(surge.nearbyBases)],
   severity |-> Severity(surge.surgeMultiple),
   confidence |-> Confidence(surge.surgeMultiple),
   category |-> "military",
   timestamp |-> surge.firstDetected,
   location |-> [lat |-> surge.theater.centerLat, lon |-> surge.theater.centerLon,
                 name |-> surge.theater.name],
   data |-> SignalMetadata(surge),
   metadata |-> SignalMetadata(surge)]

getActiveSurges == MapValues(activeSurges)

getTheaterActivity(theaterId) == HistoryOf(activityHistory, theaterId)

----------------------------------------------------------------------------
(* State machine *)

\* Module load (lines 198-200) at clock reading t
Loaded(t) == [lastCleanup |-> t, activityHistory |-> <<>>, activeSurges |-> <<>>]

\* The process-wide state of an observation
Process(o) ==
  [lastCleanup |-> o.lastCleanup, activityHistory |-> o.activityHistory,
   activeSurges |-> o.activeSurges]

\* What is observed right after load, before any call
AtLoad(t) ==
  [now |-> t, lastCleanup |-> t, activityHistory |-> <<>>, activeSurges |-> <<>>,
   newAlerts |-> <<>>, flights |-> <<>>, entry |-> Loaded(t), swept |-> Loaded(t),
   baselineUsed |-> <<>>, calledAt |-> t]

\* What is observed right after analyzeFlightsForSurge(fs), called in state st
\* at t, has returned r
Observation(r, st, fs, t) ==
  [now |-> t, lastCleanup |-> r.lastCleanup, activityHistory |-> r.activityHistory,
   activeSurges |-> r.activeSurges, newAlerts |-> r.newAlerts, flights |-> fs,
   entry |-> st, swept |-> r.swept, baselineUsed |-> r.baselines, calledAt |-> t]

Observed(st, fs, t) == Observation(analyzeFlightsForSurge(st, fs, t), st, fs, t)

\* Warm start: a caller that polls every WARM_INTERVAL until the clock reads
\* `until`, feeding the flight lists of `cycle` in turn.  Poll is one of its calls;
\* Warm runs the first half of the calls that remain, then the rest.
WARM_INTERVAL == 10 * 60 * 1000

Poll(o, cycle) ==
  Observed(Process(o), cycle[((o.now \div WARM_INTERVAL) % Len(cycle)) + 1],
           o.now + WARM_INTERVAL)

RECURSIVE Warm(_, _, _)
Warm(o, cycle, until) ==
  LET k == (until - o.now) \div WARM_INTERVAL
  IN IF k <= 0 THEN o
     ELSE IF k = 1 THEN Poll(o, cycle)
     ELSE CHOOSE r \in { Warm(half, cycle, until) :
                           half \in { Warm(o, cycle, o.now + (k \div 2) * WARM_INTERVAL) } } :
            TRUE

WarmStarts ==
  { AtLoad(0),
    Warm(AtLoad(0), <<Quiet>>, 5 * WARM_INTERVAL),
    Warm(AtLoad(0), <<Airlift6>>, 5 * WARM_INTERVAL) }

StartIn(starts) ==
  \E o \in starts :
    /\ now = o.now
    /\ lastCleanup = o.lastCleanup
    /\ activityHistory = o.activityHistory
    /\ activeSurges = o.activeSurges
    /\ newAlerts = o.newAlerts
    /\ flights = o.flights
    /\ entry = o.entry
    /\ swept = o.swept
    /\ baselineUsed = o.baselineUsed
    /\ calledAt = o.calledAt
    /\ signal = Null
    /\ steps = 0

Init == StartIn(WarmStarts)

\* A polling caller that has run for CapWarmCalls cycles over western Europe
InitCap ==
  StartIn({Warm(AtLoad(0), <<Quiet, Airlift6, Surge54>>, CapWarmCalls * WARM_INTERVAL)})

Current == [lastCleanup |-> lastCleanup, activityHistory |-> activityHistory,
            activeSurges |-> activeSurges]

Tick(max) ==
  /\ steps < max
  /\ \E d \in Advances : now' = now + d
  /\ steps' = steps + 1
  /\ UNCHANGED <<lastCleanup, activityHistory, activeSurges, newAlerts, flights,
                 entry, swept, baselineUsed, calledAt, signal>>

Analyze(max) ==
  /\ steps < max
  /\ \E fs \in Batches :
       \E o \in {Observed(Current, fs, now)} :
          /\ lastCleanup' = o.lastCleanup
          /\ activityHistory' = o.activityHistory
          /\ activeSurges' = o.activeSurges
          /\ newAlerts' = o.newAlerts
          /\ flights' = o.flights
          /\ entry' = o.entry
          /\ swept' = o.swept
          /\ baselineUsed' = o.baselineUsed
          /\ calledAt' = o.calledAt
  /\ steps' = steps + 1
  /\ UNCHANGED <<now, signal>>

Next == Tick(MaxSteps) \/ Analyze(MaxSteps)

Spec == Init /\ [][Next]_vars

\* The same machine started from the long polling run
NextCap == Tick(CapSteps) \/ Analyze(CapSteps)

SpecCap == InitCap /\ [][NextCap]_vars

\* surgeAlertToSignal called on one of the alerts getActiveSurges returns
ToSignal(max) ==
  /\ steps < max
  /\ \E i \in 1..Len(getActiveSurges) : signal' = surgeAlertToSignal(getActiveSurges[i])
  /\ steps' = steps + 1
  /\ UNCHANGED <<now, lastCleanup, activityHistory, activeSurges, newAlerts, flights,
                 entry, swept, baselineUsed, calledAt>>

\* The machine with a caller that turns active alerts into signals
NextSignal == Tick(SignalSteps) \/ Analyze(SignalSteps) \/ ToSignal(SignalSteps)

\* It starts as Spec does, or after SignalWarmCalls quiet polls, enough for the
\* transport baseline to rest on its floor
InitSignal ==
  StartIn(WarmStarts \cup {Warm(AtLoad(0), <<Quiet>>, SignalWarmCalls * WARM_INTERVAL)})

SpecSignal == InitSignal /\ [][NextSignal]_vars

\* The detector followed for a few calls only: enough for what one call does
\* with its flights
NextResolve == Tick(ResolveSteps) \/ Analyze(ResolveSteps)

SpecResolve == Init /\ [][NextResolve]_vars

\* The detector polled for as long as the clock runs: the clock advances up to
\* Horizon, calls without flights are free, calls with flights are counted.
LiveAdvances == { 30 * 60 * 1000, 60 * 60 * 1000, 2 * 60 * 60 * 1000 }

Horizon == HorizonTicks * 30 * 60 * 1000

TickLive ==
  /\ \E d \in LiveAdvances :
       /\ now + d <= Horizon
       /\ now' = now + d
  /\ UNCHANGED <<lastCleanup, activityHistory, activeSurges, newAlerts, flights,
                 entry, swept, baselineUsed, calledAt, signal, steps>>

\* One call of analyzeFlightsForSurge at the current instant
LiveCall(fs) ==
  /\ \E o \in {Observed(Current, fs, now)} :
       /\ lastCleanup' = o.lastCleanup
       /\ activityHistory' = o.activityHistory
       /\ activeSurges' = o.activeSurges
       /\ newAlerts' = o.newAlerts
       /\ flights' = o.flights
       /\ entry' = o.entry
       /\ swept' = o.swept
       /\ baselineUsed' = o.baselineUsed
       /\ calledAt' = o.calledAt
  /\ UNCHANGED <<now, signal>>

\* A poll that found no military flight
IdleCall == LiveCall(<<>>) /\ UNCHANGED steps

\* A poll that found flights
BusyCall ==
  /\ steps < LiveSteps
  /\ \E fs \in LiveBatches : LiveCall(fs)
  /\ steps' = steps + 1

NextLive == TickLive \/ IdleCall \/ BusyCall

\* The clock keeps advancing and the poll keeps being made
SpecLive == Init /\ [][NextLive]_vars /\ WF_vars(TickLive) /\ WF_vars(IdleCall)

----------------------------------------------------------------------------
(* Vocabulary of the properties *)

Keys(m) == {m[i].key : i \in 1..Len(m)}
SurgeTypes == {"airlift", "fighter"}
TWO_HOURS == 2 * 60 * 60 * 1000
ONE_HOUR == 60 * 60 * 1000

\* The theaters the last call processed, with their counts
Tallies == Aggregated(flights)
TallyIndex == 1..Len(Tallies)
AirliftKey(i) == SurgeId("airlift", Tallies[i].theaterId)
FighterKey(i) == SurgeId("fighter", Tallies[i].theaterId)
BaselineOf(i) == MapGet(baselineUsed, Tallies[i].theaterId)

\* transportCount >= 2.0 * baseline.transport and transportCount >= 5
AirliftCondition(i) ==
  /\ Tallies[i].transportCount * BaselineOf(i).transport.d >= 2 * BaselineOf(i).transport.n
  /\ Tallies[i].transportCount >= 5

\* fighterCount >= 2.0 * baseline.fighter and fighterCount >= 4
FighterCondition(i) ==
  /\ Tallies[i].fighterCount * BaselineOf(i).fighter.d >= 2 * BaselineOf(i).fighter.n
  /\ Tallies[i].fighterCount >= 4

\* The entry of key k was left as it was after cleanup: absent, or the same alert
Untouched(k) ==
  /\ MapHas(activeSurges, k) <=> MapHas(swept.activeSurges, k)
  /\ MapHas(activeSurges, k) => MapGet(activeSurges, k) = MapGet(swept.activeSurges, k)

\* The alert of key k was created by the last call
Created(k) == MapHas(activeSurges, k) /\ ~MapHas(swept.activeSurges, k)

Returned(k) == \E j \in 1..Len(newAlerts) : newAlerts[j].id = k

----------------------------------------------------------------------------
(* C1: in every reachable state the active-alert map holds at most one     *)
(* alert per (type, theater): its keys are pairwise different, each key is *)
(* airlift-<T> or fighter-<T> for a theater T, and the alert under it has  *)
(* that key as id, that type and that theater.                              *)

C1_OneAlertPerTypeAndTheater ==
  /\ \A i, j \in 1..Len(activeSurges) :
       activeSurges[i].key = activeSurges[j].key => i = j
  /\ \A i \in 1..Len(activeSurges) :
       \E type \in SurgeTypes, T \in TheaterIds :
         /\ activeSurges[i].key = SurgeId(type, T)
         /\ activeSurges[i].value.id = activeSurges[i].key
         /\ activeSurges[i].value.type = type
         /\ activeSurges[i].value.theater.id = T
  /\ \A i, j \in 1..Len(activeSurges) :
       (/\ activeSurges[i].value.type = activeSurges[j].value.type
        /\ activeSurges[i].value.theater.id = activeSurges[j].value.theater.id) => i = j

\* The airlift condition held again for a theater whose alert was active,
\* next to a fighter alert of the same theater
C1_Witness ==
  /\ \E i \in TallyIndex :
       /\ AirliftCondition(i)
       /\ MapHas(swept.activeSurges, AirliftKey(i))
       /\ MapHas(activeSurges, FighterKey(i))
  /\ Len(activeSurges) >= 3

----------------------------------------------------------------------------
(* C2: analyzeFlightsForSurge returns exactly the alerts it created: every *)
(* returned alert is registered under its id and had no entry when it was  *)
(* detected, every alert created in the call is returned once, and an      *)
(* alert that was only updated in place is not returned.                    *)

C2_ReturnsExactlyCreated ==
  /\ \A j \in 1..Len(newAlerts) :
       /\ Created(newAlerts[j].id)
       /\ MapGet(activeSurges, newAlerts[j].id) = newAlerts[j]
  /\ \A k \in Keys(activeSurges) : Created(k) => Returned(k)
  /\ \A j1, j2 \in 1..Len(newAlerts) : newAlerts[j1].id = newAlerts[j2].id => j1 = j2
  /\ \A k \in Keys(swept.activeSurges) : ~Returned(k)

\* A call that created alerts and updated an existing airlift alert in place
C2_Witness ==
  /\ Len(newAlerts) >= 2
  /\ \E i \in TallyIndex :
       /\ AirliftCondition(i)
       /\ MapHas(swept.activeSurges, AirliftKey(i))
       /\ MapGet(activeSurges, AirliftKey(i)) # MapGet(swept.activeSurges, AirliftKey(i))

----------------------------------------------------------------------------
(* C3: for each theater with a flight in the cycle, the airlift alert is   *)
(* created or refreshed with the cycle's count at the cycle's time if and  *)
(* only if transportCount >= 2.0 * baseline.transport and                   *)
(* transportCount >= 5; otherwise its entry is neither created nor          *)
(* modified.                                                                *)

C3_AirliftIffCondition ==
  \A i \in TallyIndex :
    IF AirliftCondition(i)
      THEN /\ MapHas(activeSurges, AirliftKey(i))
           /\ MapGet(activeSurges, AirliftKey(i)).currentCount = Tallies[i].transportCount
           /\ MapGet(activeSurges, AirliftKey(i)).lastUpdated = calledAt
           /\ Created(AirliftKey(i)) <=> Returned(AirliftKey(i))
      ELSE Untouched(AirliftKey(i))

\* Five transports against the default baseline of 3: above the floor, below
\* the threshold, with the theater's airlift alert active and left alone
C3_Witness ==
  \E i \in TallyIndex :
    /\ Tallies[i].transportCount >= 5
    /\ ~AirliftCondition(i)
    /\ MapHas(activeSurges, AirliftKey(i))
    /\ MapGet(activeSurges, AirliftKey(i)).lastUpdated < calledAt

----------------------------------------------------------------------------
(* C4: when the airlift condition holds for a theater whose airlift alert  *)
(* exists, the alert is updated in place: currentCount, surgeMultiple,     *)
(* aircraftTypes, nearbyBases and lastUpdated take the cycle's values; id, *)
(* theater, type, firstDetected and baselineCount stay; the entry keeps    *)
(* its place in the map and no entry is added for it.                       *)

C4_AirliftUpdatedInPlace ==
  \A i \in TallyIndex :
    (AirliftCondition(i) /\ MapHas(swept.activeSurges, AirliftKey(i))) =>
      LET old == MapGet(swept.activeSurges, AirliftKey(i))
          new == MapGet(activeSurges, AirliftKey(i))
          at == CHOOSE p \in 1..Len(swept.activeSurges) :
                  swept.activeSurges[p].key = AirliftKey(i)
      IN /\ new.currentCount = Tallies[i].transportCount
         /\ new.surgeMultiple.n * BaselineOf(i).transport.n
              = Tallies[i].transportCount * BaselineOf(i).transport.d * new.surgeMultiple.d
         /\ new.aircraftTypes = Tallies[i].aircraftTypes
         /\ new.nearbyBases = Tallies[i].nearbyBases
         /\ new.lastUpdated = calledAt
         /\ new.id = old.id
         /\ new.theater = old.theater
         /\ new.type = old.type
         /\ new.firstDetected = old.firstDetected
         /\ new.baselineCount = old.baselineCount
         /\ activeSurges[at].key = AirliftKey(i)
         /\ Len(activeSurges) = Len(swept.activeSurges) + Len(newAlerts)

\* An update that changed the count and the time while the baseline moved
\* away from the one the alert was created with
C4_Witness ==
  \E i \in TallyIndex :
    /\ AirliftCondition(i)
    /\ MapHas(swept.activeSurges, AirliftKey(i))
    /\ MapGet(swept.activeSurges, AirliftKey(i)).currentCount # Tallies[i].transportCount
    /\ MapGet(swept.activeSurges, AirliftKey(i)).lastUpdated < calledAt
    /\ MapGet(activeSurges, AirliftKey(i)).baselineCount # MathRound(BaselineOf(i).transport)

----------------------------------------------------------------------------
(* C5: a fighter alert of theater T is created and returned exactly when   *)
(* fighterCount >= 2.0 * baseline.fighter, fighterCount >= 4 and no alert  *)
(* is registered under fighter-<T>; an alert registered under that key is  *)
(* left unchanged in every field, also when the condition holds.            *)

C5_FighterCreatedOnce ==
  \A i \in TallyIndex :
    /\ (Created(FighterKey(i)) /\ Returned(FighterKey(i)))
         <=> (FighterCondition(i) /\ ~MapHas(swept.activeSurges, FighterKey(i)))
    /\ Created(FighterKey(i)) =>
         /\ MapGet(activeSurges, FighterKey(i)).currentCount = Tallies[i].fighterCount
         /\ MapGet(activeSurges, FighterKey(i)).lastUpdated = calledAt
    /\ MapHas(swept.activeSurges, FighterKey(i)) =>
         /\ MapHas(activeSurges, FighterKey(i))
         /\ MapGet(activeSurges, FighterKey(i)) = MapGet(swept.activeSurges, FighterKey(i))

\* The fighter condition holds in a later cycle for a theater whose fighter
\* alert is active
C5_Witness ==
  \E i \in TallyIndex :
    /\ FighterCondition(i)
    /\ MapHas(swept.activeSurges, FighterKey(i))
    /\ MapGet(activeSurges, FighterKey(i)).lastUpdated < calledAt

----------------------------------------------------------------------------
(* C6: calculateBaseline(T) returns the defaults (3, 2, 1) whenever fewer  *)
(* than 6 history entries of T lie within the trailing 48 hours, and       *)
(* otherwise the mean of each category over those entries, floored at 2    *)
(* (transport) and 1 (fighter, recon); the result is never below 2 for     *)
(* transport or 1 for fighter and recon.                                    *)

\* The history calculateBaseline read for theater i of the last call, its
\* entries within 48 hours of the call, and the sum of a category over them
HistoryRead(i) == HistoryOf(activityHistory, Tallies[i].theaterId)
InWindow(i) ==
  {j \in 1..Len(HistoryRead(i)) :
     HistoryRead(i)[j].timestamp >= calledAt - 48 * ONE_HOUR}
WindowSum(i, Count(_)) ==
  Sum([j \in 1..Len(HistoryRead(i)) |->
         IF j \in InWindow(i) THEN Count(HistoryRead(i)[j]) ELSE 0])

\* b is max(floor, sum / n)
IsFlooredMean(b, sum, n, floor) ==
  /\ b.d > 0
  /\ sum >= floor * n => b.n * n = sum * b.d
  /\ sum < floor * n => b.n = floor * b.d

C6_BaselineDefaultsOrFlooredMean ==
  \A i \in TallyIndex :
    LET n == Cardinality(InWindow(i))
        b == BaselineOf(i)
    IN /\ n < 6 => b = [transport |-> [n |-> 3, d |-> 1], fighter |-> [n |-> 2, d |-> 1],
                        recon |-> [n |-> 1, d |-> 1]]
       /\ n >= 6 =>
            /\ IsFlooredMean(b.transport, WindowSum(i, LAMBDA h : h.transportCount), n, 2)
            /\ IsFlooredMean(b.fighter, WindowSum(i, LAMBDA h : h.fighterCount), n, 1)
            /\ IsFlooredMean(b.recon, WindowSum(i, LAMBDA h : h.reconCount), n, 1)
       /\ b.transport.n >= 2 * b.transport.d
       /\ b.fighter.n >= b.fighter.d
       /\ b.recon.n >= b.recon.d

\* Six samples in the window: the transport mean is below its floor and the
\* fighter mean is a fraction above its floor
C6_Witness ==
  \E i \in TallyIndex :
    /\ Cardinality(InWindow(i)) >= 6
    /\ WindowSum(i, LAMBDA h : h.transportCount) < 2 * Cardinality(InWindow(i))
    /\ BaselineOf(i).fighter.d > 1
    /\ BaselineOf(i).transport = [n |-> 2, d |-> 1]

----------------------------------------------------------------------------
(* C7: the history of every theater holds at most 200 entries, and         *)
(* appending a snapshot to a history of 200 entries drops exactly the      *)
(* oldest one: the other 199 stay in their order, followed by the new      *)
(* snapshot.                                                                *)

HistoryBefore(i) == HistoryOf(swept.activityHistory, Tallies[i].theaterId)

IsSnapshotOf(a, i) ==
  /\ a.theaterId = Tallies[i].theaterId
  /\ a.timestamp = calledAt
  /\ a.transportCount = Tallies[i].transportCount
  /\ a.fighterCount = Tallies[i].fighterCount
  /\ a.reconCount = Tallies[i].reconCount
  /\ a.flightIds = Tallies[i].flightIds

C7_HistoryCappedAt200 ==
  /\ \A e \in 1..Len(activityHistory) : Len(activityHistory[e].value) <= 200
  /\ \A i \in TallyIndex :
       LET before == HistoryBefore(i)
           after == HistoryRead(i)
       IN IF Len(before) = 200
            THEN /\ Len(after) = 200
                 /\ \A j \in 1..199 : after[j] = before[j + 1]
                 /\ IsSnapshotOf(after[200], i)
            ELSE /\ Len(after) = Len(before) + 1
                 /\ \A j \in 1..Len(before) : after[j] = before[j]
                 /\ IsSnapshotOf(after[Len(after)], i)

\* A snapshot appended to a full history whose two oldest entries differ
C7_Witness ==
  \E i \in TallyIndex :
    /\ Len(HistoryBefore(i)) = 200
    /\ HistoryBefore(i)[1] # HistoryBefore(i)[2]
    /\ HistoryRead(i)[1] = HistoryBefore(i)[2]

----------------------------------------------------------------------------
(* C8: when a call has run the cleanup at time t, the histories it leaves  *)
(* hold no entry older than t - 72 hours, keep every entry within 72 hours *)
(* in order, and a theater whose entries were all pruned has no entry in   *)
(* the map; the map never holds an empty history.                           *)

\* The last call advanced lastCleanup: its cleanup ran
CleanupRan == swept.lastCleanup # entry.lastCleanup

Within72h(h) == SelectSeq(h, LAMBDA a : a.timestamp >= calledAt - 72 * ONE_HOUR)

C8_CleanupPrunesHistory ==
  /\ \A e \in 1..Len(activityHistory) : activityHistory[e].value # <<>>
  /\ \A e \in 1..Len(swept.activityHistory) : swept.activityHistory[e].value # <<>>
  /\ CleanupRan =>
       /\ \A e \in 1..Len(swept.activityHistory) :
            \A j \in 1..Len(swept.activityHistory[e].value) :
              swept.activityHistory[e].value[j].timestamp >= calledAt - 72 * ONE_HOUR
       /\ \A T \in Keys(entry.activityHistory) :
            LET kept == Within72h(MapGet(entry.activityHistory, T))
            IN IF kept = <<>> THEN ~MapHas(swept.activityHistory, T)
               ELSE MapHas(swept.activityHistory, T)
                    /\ MapGet(swept.activityHistory, T) = kept
       /\ Keys(swept.activityHistory) \subseteq Keys(entry.activityHistory)

\* A cleanup that pruned part of one history, up to an entry exactly 72 hours
\* old, which it kept
C8_Witness ==
  /\ CleanupRan
  /\ \E T \in Keys(swept.activityHistory) :
       /\ Len(MapGet(swept.activityHistory, T)) < Len(MapGet(entry.activityHistory, T))
       /\ MapGet(swept.activityHistory, T)[1].timestamp = calledAt - 72 * ONE_HOUR

\* A cleanup that pruned every entry of a theater
C8_WitnessEmptied ==
  /\ CleanupRan
  /\ \E T \in Keys(entry.activityHistory) : ~MapHas(swept.activityHistory, T)

----------------------------------------------------------------------------
(* C9: an alert whose lastUpdated is more than 2 hours before the time of  *)
(* a cleanup is gone when the cleanup returns, and getActiveSurges shows   *)
(* it after the call only if the same call created it anew, with           *)
(* firstDetected and lastUpdated at the time of the call.                   *)

C9_ExpiredAlertsEvicted ==
  CleanupRan =>
    \A e \in 1..Len(entry.activeSurges) :
      LET old == entry.activeSurges[e].value
      IN calledAt - old.lastUpdated > TWO_HOURS =>
           /\ \A p \in 1..Len(swept.activeSurges) : swept.activeSurges[p].value.id # old.id
           /\ \A p \in 1..Len(getActiveSurges) :
                getActiveSurges[p].id = old.id =>
                  /\ getActiveSurges[p].firstDetected = calledAt
                  /\ getActiveSurges[p].lastUpdated = calledAt
                  /\ Returned(old.id)

\* A cleanup that evicted an alert which the same call then created anew
C9_Witness ==
  /\ CleanupRan
  /\ \E e \in 1..Len(entry.activeSurges) :
       /\ calledAt - entry.activeSurges[e].value.lastUpdated > TWO_HOURS
       /\ Returned(entry.activeSurges[e].key)

\* A cleanup that evicted an alert for good while keeping one exactly 2 hours old
C9_WitnessGone ==
  /\ CleanupRan
  /\ \E e \in 1..Len(entry.activeSurges) :
       /\ calledAt - entry.activeSurges[e].value.lastUpdated > TWO_HOURS
       /\ ~MapHas(activeSurges, entry.activeSurges[e].key)

----------------------------------------------------------------------------
(* C10: a call runs the cleanup if and only if at least 1 hour has passed  *)
(* since the previous cleanup (since load when none has run), and only     *)
(* then advances lastCleanup; two cleanups are at least 1 hour apart; a    *)
(* call less than 1 hour after the last cleanup removes no history entry   *)
(* and no alert.                                                            *)

C10_CleanupTimeGated ==
  LET due == calledAt - entry.lastCleanup >= ONE_HOUR
  IN /\ due =>
          /\ lastCleanup = calledAt
          /\ swept.lastCleanup = calledAt
          /\ \A e \in 1..Len(entry.activeSurges) :
               calledAt - entry.activeSurges[e].value.lastUpdated > TWO_HOURS =>
                 ~MapHas(swept.activeSurges, entry.activeSurges[e].key)
          /\ \A T \in Keys(entry.activityHistory) :
               HistoryOf(swept.activityHistory, T) = Within72h(MapGet(entry.activityHistory, T))
     /\ ~due =>
          /\ lastCleanup = entry.lastCleanup
          /\ swept = entry
     /\ lastCleanup # entry.lastCleanup => lastCleanup - entry.lastCleanup >= ONE_HOUR
     /\ lastCleanup <= calledAt

\* A call half an hour after a cleanup: an alert older than 2 hours stays
C10_Witness ==
  /\ calledAt - entry.lastCleanup > 0
  /\ calledAt - entry.lastCleanup < ONE_HOUR
  /\ entry.lastCleanup > 0
  /\ \E e \in 1..Len(activeSurges) :
       calledAt - activeSurges[e].value.lastUpdated > TWO_HOURS

\* A call exactly one hour after the previous cleanup, which itself was a
\* cleanup run by a call
C10_WitnessOnTheHour ==
  /\ calledAt - entry.lastCleanup = ONE_HOUR
  /\ entry.lastCleanup > 0
  /\ lastCleanup = calledAt

----------------------------------------------------------------------------
(* Vocabulary of the theater resolution: what the last call's flights are  *)
(* near, and which snapshot the call appended.                              *)

FlightIndex == 1..Len(flights)
BaseIndex == 1..Len(MILITARY_BASES_EXPANDED)
TheaterIndex == 1..Len(THEATERS)

\* Flight i of the last call is within 150 km of base b
NearBase(i, b) ==
  distanceKm(flights[i].lat, flights[i].lon,
             MILITARY_BASES_EXPANDED[b].lat, MILITARY_BASES_EXPANDED[b].lon) <= 150

\* Base b is one of the bases of theater k
BaseOf(b, k) ==
  \E j \in 1..Len(THEATERS[k].baseIds) :
    THEATERS[k].baseIds[j] = MILITARY_BASES_EXPANDED[b].id

\* The distance from flight i of the last call to the center of theater k
CenterKm(i, k) ==
  distanceKm(flights[i].lat, flights[i].lon, THEATERS[k].centerLat, THEATERS[k].centerLon)

\* The last call appended a snapshot to the history of theater id T
AppendedTo(T) ==
  HistoryOf(activityHistory, T) # HistoryOf(swept.activityHistory, T)

\* The snapshot the last call appended for theater id T
Snapshot(T) ==
  HistoryOf(activityHistory, T)[Len(HistoryOf(activityHistory, T))]

\* Flight i of the last call is counted in the snapshot appended for theater id T
CountedIn(i, T) ==
  /\ AppendedTo(T)
  /\ Snapshot(T).timestamp = calledAt
  /\ \E j \in 1..Len(Snapshot(T).flightIds) : Snapshot(T).flightIds[j] = flights[i].id

----------------------------------------------------------------------------
(* C11: a flight within 150 km of a base of theater T resolves to T and is *)
(* counted in T's snapshot of the cycle and in no other theater's, also    *)
(* when the center of another theater is closer to the flight than T's.    *)

C11_BaseDecidesTheater ==
  \A i \in FlightIndex : \A b \in BaseIndex : \A k \in TheaterIndex :
    (NearBase(i, b) /\ BaseOf(b, k)) =>
      /\ getTheaterForFlight(flights[i]) = THEATERS[k]
      /\ CountedIn(i, THEATERS[k].id)
      /\ \A o \in TheaterIndex : o # k => ~CountedIn(i, THEATERS[o].id)

\* A flight near a base of T with another theater's center closer than T's
C11_Witness ==
  \E i \in FlightIndex : \E b \in BaseIndex : \E k, o \in TheaterIndex :
    /\ NearBase(i, b) /\ BaseOf(b, k)
    /\ CenterKm(i, o) < CenterKm(i, k)
    /\ CountedIn(i, THEATERS[k].id)

\* A flight near a base of T for which a theater listed before T has its
\* center within 1500 km
C11_WitnessListedBefore ==
  \E i \in FlightIndex : \E b \in BaseIndex : \E k, o \in TheaterIndex :
    /\ NearBase(i, b) /\ BaseOf(b, k)
    /\ o < k /\ CenterKm(i, o) < 1500
    /\ CountedIn(i, THEATERS[k].id)

----------------------------------------------------------------------------
(* C12: a flight with no base of any theater within 150 km resolves to the *)
(* theater whose center is nearest to it among the centers within 1500 km, *)
(* also when several centers are within 1500 km.                            *)

\* Flight i of the last call is near no base that belongs to a theater
NoOwnedBaseNear(i) ==
  \A b \in BaseIndex : \A k \in TheaterIndex : ~(NearBase(i, b) /\ BaseOf(b, k))

\* Theater k has the nearest center to flight i among the centers within 1500 km
NearestCenter(i, k) ==
  /\ CenterKm(i, k) < 1500
  /\ \A o \in TheaterIndex : CenterKm(i, o) < 1500 => CenterKm(i, k) <= CenterKm(i, o)

C12_NearestCenterFallback ==
  \A i \in FlightIndex :
    (NoOwnedBaseNear(i) /\ \E o \in TheaterIndex : CenterKm(i, o) < 1500) =>
      \E k \in TheaterIndex :
        /\ NearestCenter(i, k)
        /\ getTheaterForFlight(flights[i]) = THEATERS[k]
        /\ CountedIn(i, THEATERS[k].id)

----------------------------------------------------------------------------
(* C13: a flight farther than 1500 km from every theater center and within *)
(* 150 km of no base resolves to no theater and is dropped: it is counted  *)
(* in no snapshot, the snapshots of a call list exactly the flights that   *)
(* have a theater, and a call whose flights are all without a theater      *)
(* appends nothing to any history and creates or updates no alert.          *)

\* Flight i of the last call is near no base and far from every center
FarFromEverything(i) ==
  /\ \A b \in BaseIndex : ~NearBase(i, b)
  /\ \A k \in TheaterIndex : CenterKm(i, k) > 1500

\* Flight i of the last call has a theater: an owned base near or a center in range
HasTheater(i) ==
  \/ ~NoOwnedBaseNear(i)
  \/ \E k \in TheaterIndex : CenterKm(i, k) < 1500

\* The flight ids listed by the snapshots the last call appended
ListedIds ==
  UNION { Range(Snapshot(THEATERS[k].id).flightIds) :
            k \in {o \in TheaterIndex : AppendedTo(THEATERS[o].id)} }

C13_UnassignedFlightsDropped ==
  /\ \A i \in FlightIndex :
       FarFromEverything(i) =>
         /\ getTheaterForFlight(flights[i]) = Null
         /\ \A k \in TheaterIndex : ~CountedIn(i, THEATERS[k].id)
  /\ ListedIds = {flights[i].id : i \in {j \in FlightIndex : HasTheater(j)}}
  /\ \A k \in TheaterIndex :
       AppendedTo(THEATERS[k].id) =>
         Snapshot(THEATERS[k].id).totalMilitary
           = Cardinality({i \in FlightIndex : CountedIn(i, THEATERS[k].id)})
  /\ (\A i \in FlightIndex : FarFromEverything(i)) =>
       /\ activityHistory = swept.activityHistory
       /\ activeSurges = swept.activeSurges
       /\ newAlerts = <<>>

\* A call of ten flights over the open ocean, six transports and four fighters,
\* made while a history and an alert exist
C13_Witness ==
  /\ Len(flights) = 10
  /\ \A i \in FlightIndex : FarFromEverything(i)
  /\ activityHistory # <<>>
  /\ activeSurges # <<>>

\* A call that drops one flight and counts the others
C13_WitnessMixed ==
  /\ \E i \in FlightIndex : FarFromEverything(i)
  /\ \E i \in FlightIndex : \E k \in TheaterIndex : CountedIn(i, THEATERS[k].id)

----------------------------------------------------------------------------
(* C14: the transport rule comes first: declared type transport or tanker, *)
(* or a callsign that starts with an airlift pattern in any letter case,   *)
(* makes a flight 'transport' whatever its declared type; otherwise type   *)
(* fighter gives 'fighter', reconnaissance or awacs gives 'recon', and     *)
(* anything else 'other'.  Every snapshot counts each of its flights in    *)
(* exactly one category: totalMilitary is the number of flightIds and      *)
(* exceeds transportCount + fighterCount + reconCount by the 'other' ones. *)

\* The callsign of flight i starts with an airlift pattern, letter case aside
AirliftCallsign(i) ==
  \E p \in 1..Len(TRANSPORT_CALLSIGN_PATTERNS) :
    LET pattern == TRANSPORT_CALLSIGN_PATTERNS[p]
    IN /\ Len(flights[i].callsign) >= Len(pattern)
       /\ \A j \in 1..Len(pattern) :
            \/ flights[i].callsign[j] = pattern[j]
            \/ /\ flights[i].callsign[j] \in DOMAIN LowerToUpper
               /\ LowerToUpper[flights[i].callsign[j]] = pattern[j]

\* The category the claim gives flight i of the last call
CategoryOf(i) ==
  IF \/ flights[i].aircraftType \in {"transport", "tanker"}
     \/ AirliftCallsign(i) THEN "transport"
  ELSE IF flights[i].aircraftType = "fighter" THEN "fighter"
  ELSE IF flights[i].aircraftType \in {"reconnaissance", "awacs"} THEN "recon"
  ELSE "other"

\* How many flights of category c the last call counted for theater id T
CountedAs(T, c) == Cardinality({i \in FlightIndex : CountedIn(i, T) /\ CategoryOf(i) = c})

C14_TransportRuleFirst ==
  /\ \A i \in FlightIndex : classifyFlight(flights[i]) = CategoryOf(i)
  /\ \A k \in TheaterIndex :
       AppendedTo(THEATERS[k].id) =>
         LET T == THEATERS[k].id
             a == Snapshot(T)
         IN /\ a.transportCount = CountedAs(T, "transport")
            /\ a.fighterCount = CountedAs(T, "fighter")
            /\ a.reconCount = CountedAs(T, "recon")
            /\ a.totalMilitary = Len(a.flightIds)
            /\ a.totalMilitary >= a.transportCount + a.fighterCount + a.reconCount
            /\ a.totalMilitary - (a.transportCount + a.fighterCount + a.reconCount)
                 = CountedAs(T, "other")

\* A snapshot counting as transports a declared fighter and a declared recon
\* aircraft whose callsigns match an airlift pattern in lower or mixed case
C14_Witness ==
  \E k \in TheaterIndex : \E i, j \in FlightIndex :
    /\ CountedIn(i, THEATERS[k].id) /\ CountedIn(j, THEATERS[k].id)
    /\ flights[i].aircraftType = "fighter" /\ AirliftCallsign(i)
    /\ flights[j].aircraftType = "reconnaissance" /\ AirliftCallsign(j)
    /\ Snapshot(THEATERS[k].id).fighterCount > 0
    /\ Snapshot(THEATERS[k].id).transportCount >= 5

\* A snapshot whose total exceeds the three counts by an 'other' flight whose
\* callsign shares four letters with an airlift pattern
C14_WitnessOther ==
  \E k \in TheaterIndex :
    /\ AppendedTo(THEATERS[k].id)
    /\ Snapshot(THEATERS[k].id).totalMilitary
         > Snapshot(THEATERS[k].id).transportCount + Snapshot(THEATERS[k].id).fighterCount
           + Snapshot(THEATERS[k].id).reconCount
    /\ Snapshot(THEATERS[k].id).reconCount > 0

----------------------------------------------------------------------------
(* C15: the signal of an alert has severity 'critical' exactly when        *)
(* surgeMultiple >= 4, 'high' exactly when 3 <= surgeMultiple < 4 and      *)
(* 'medium' otherwise; its confidence is min(0.95, 0.6 + (surgeMultiple -  *)
(* 2) * 0.1), never above 0.95 and non-decreasing in surgeMultiple; a      *)
(* multiple of 2 gives medium and 0.6, a multiple of 4 gives critical and  *)
(* 0.8; making the signal changes no alert and no process-wide state.      *)

\* a <= b for rationals with positive denominators
AtMost(a, b) == a.n * b.d <= b.n * a.d

C15_SignalOfLastCall ==
  signal # Null =>
    LET m == signal.metadata.surgeMultiple
        c == signal.confidence
    IN /\ signal.severity \in {"critical", "high", "medium"}
       /\ signal.severity = "critical" <=> m.n >= 4 * m.d
       /\ signal.severity = "high" <=> (m.n >= 3 * m.d /\ m.n < 4 * m.d)
       /\ signal.severity = "medium" <=> m.n < 3 * m.d
       /\ c.d > 0 /\ 100 * c.n <= 95 * c.d
       \* 0.6 + (m - 2) * 0.1 is (m.n + 4 * m.d) / (10 * m.d)
       /\ IF 100 * (m.n + 4 * m.d) <= 95 * 10 * m.d
            THEN c.n * 10 * m.d = (m.n + 4 * m.d) * c.d
            ELSE 100 * c.n = 95 * c.d
       /\ m.n = 2 * m.d => (signal.severity = "medium" /\ 10 * c.n = 6 * c.d)
       /\ m.n = 4 * m.d => (signal.severity = "critical" /\ 10 * c.n = 8 * c.d)

C15_ConfidenceMonotone ==
  \A i, j \in 1..Len(getActiveSurges) :
    AtMost(getActiveSurges[i].surgeMultiple, getActiveSurges[j].surgeMultiple) =>
      AtMost(surgeAlertToSignal(getActiveSurges[i]).confidence,
             surgeAlertToSignal(getActiveSurges[j]).confidence)

C15_SignalLeavesState ==
  signal' # signal =>
    /\ activeSurges' = activeSurges
    /\ activityHistory' = activityHistory
    /\ lastCleanup' = lastCleanup

C15_SeverityAndConfidence ==
  /\ [](C15_SignalOfLastCall /\ C15_ConfidenceMonotone)
  /\ [][C15_SignalLeavesState]_vars

\* The signal of an alert raised by 12 transports against a baseline of 3
C15_Witness ==
  /\ signal # Null
  /\ signal.metadata.currentCount = 12
  /\ signal.metadata.baselineCount = 3
  /\ signal.metadata.surgeMultiple = [n |-> 4, d |-> 1]
  /\ signal.severity = "critical"
  /\ signal.confidence = [n |-> 4, d |-> 5]

\* The signal of an alert with multiple 2: medium, confidence 0.6
C15_WitnessMedium ==
  /\ signal # Null
  /\ signal.metadata.surgeMultiple = [n |-> 2, d |-> 1]
  /\ signal.confidence = [n |-> 3, d |-> 5]

\* A signal whose confidence is capped: 12 transports against the floor of 2
C15_WitnessCapped ==
  /\ signal # Null
  /\ signal.confidence = [n |-> 19, d |-> 20]
  /\ signal.metadata.surgeMultiple = [n |-> 6, d |-> 1]

\* A signal of severity high

C15_WitnessHigh ==
  /\ signal # Null
  /\ signal.severity = "high"

----------------------------------------------------------------------------
(* C16: for every active alert, after any sequence of analysis calls,      *)
(* surgeMultiple equals currentCount divided by baselineCount.              *)

C16_MultipleIsCountOverBaselineCount ==
  \A i \in 1..Len(getActiveSurges) :
    /\ getActiveSurges[i].baselineCount > 0
    /\ getActiveSurges[i].surgeMultiple.n * getActiveSurges[i].baselineCount
         = getActiveSurges[i].currentCount * getActiveSurges[i].surgeMultiple.d

----------------------------------------------------------------------------
(* C17: with a clock that never goes backwards, the history of every       *)
(* theater is in non-decreasing timestamp order in every reachable state:  *)
(* as the last call found it, as its cleanup left it and as its append     *)
(* left it; no entry is later than the call that wrote the state; and      *)
(* getTheaterActivity returns the stored entries oldest-first, the empty   *)
(* list for a theater with no history.                                      *)

OldestFirst(h) ==
  \A i \in 1..Len(h) : \A j \in i..Len(h) : h[i].timestamp <= h[j].timestamp

C17_HistoryOldestFirst ==
  \A T \in TheaterIds :
    /\ OldestFirst(HistoryOf(entry.activityHistory, T))
    /\ OldestFirst(HistoryOf(swept.activityHistory, T))
    /\ OldestFirst(getTheaterActivity(T))
    /\ \A j \in 1..Len(getTheaterActivity(T)) :
         getTheaterActivity(T)[j].timestamp <= now
    /\ IF MapHas(activityHistory, T)
         THEN getTheaterActivity(T) = MapGet(activityHistory, T)
         ELSE getTheaterActivity(T) = <<>>
    /\ AppendedTo(T) =>
         /\ Snapshot(T).timestamp = calledAt
         /\ getTheaterActivity(T)[1].timestamp
              = IF HistoryOf(swept.activityHistory, T) = <<>> THEN calledAt
                ELSE HistoryOf(swept.activityHistory, T)[1].timestamp

\* A call whose cleanup pruned part of a theater's history and which then
\* appended to it: the result holds an older entry before the new one, while
\* another theater has no history
C17_Witness ==
  /\ CleanupRan
  /\ \E T \in TheaterIds :
       /\ AppendedTo(T)
       /\ HistoryOf(swept.activityHistory, T) # <<>>
       /\ Len(HistoryOf(swept.activityHistory, T)) < Len(HistoryOf(entry.activityHistory, T))
       /\ getTheaterActivity(T)[1].timestamp < Snapshot(T).timestamp
  /\ \E U \in TheaterIds : getTheaterActivity(U) = <<>>

\* Two calls at the same instant: equal timestamps side by side
C17_WitnessSameInstant ==
  \E T \in TheaterIds :
    /\ Len(getTheaterActivity(T)) >= 2
    /\ getTheaterActivity(T)[Len(getTheaterActivity(T)) - 1].timestamp = Snapshot(T).timestamp

----------------------------------------------------------------------------
(* C18: the airlift and the fighter check of a theater are independent     *)
(* within a cycle.  The fighter alert is created exactly when the fighter  *)
(* condition holds and no fighter alert is active, whatever the state of   *)
(* the airlift alert and the outcome of the airlift check; likewise the    *)
(* airlift alert.  When both conditions hold and neither alert is active,  *)
(* both are created and returned and both are active afterwards.            *)

ActiveBefore(k) == MapHas(swept.activeSurges, k)

C18_ChecksIndependent ==
  \A i \in TallyIndex :
    /\ Created(FighterKey(i)) <=> (FighterCondition(i) /\ ~ActiveBefore(FighterKey(i)))
    /\ Created(AirliftKey(i)) <=> (AirliftCondition(i) /\ ~ActiveBefore(AirliftKey(i)))
    /\ Returned(FighterKey(i)) <=> Created(FighterKey(i))
    /\ Returned(AirliftKey(i)) <=> Created(AirliftKey(i))
    /\ ( /\ AirliftCondition(i) /\ FighterCondition(i)
         /\ ~ActiveBefore(AirliftKey(i)) /\ ~ActiveBefore(FighterKey(i)) )
       => /\ MapHas(activeSurges, AirliftKey(i)) /\ MapHas(activeSurges, FighterKey(i))
          /\ MapGet(activeSurges, AirliftKey(i)).type = "airlift"
          /\ MapGet(activeSurges, FighterKey(i)).type = "fighter"
          /\ Returned(AirliftKey(i)) /\ Returned(FighterKey(i))

\* A cycle that created both alerts of one theater
C18_Witness ==
  \E i \in TallyIndex :
    /\ AirliftCondition(i) /\ FighterCondition(i)
    /\ Created(AirliftKey(i)) /\ Created(FighterKey(i))
    /\ Returned(AirliftKey(i)) /\ Returned(FighterKey(i))

\* A fighter alert created while the airlift alert was active and refreshed
C18_WitnessFighterBesideAirlift ==
  \E i \in TallyIndex :
    /\ ActiveBefore(AirliftKey(i)) /\ AirliftCondition(i)
    /\ Created(FighterKey(i))

\* An airlift alert created while the fighter alert was active
C18_WitnessAirliftBesideFighter ==
  \E i \in TallyIndex :
    /\ ActiveBefore(FighterKey(i))
    /\ Created(AirliftKey(i)) /\ Untouched(FighterKey(i))

\* A fighter alert created in a cycle whose airlift condition failed
C18_WitnessFighterAlone ==
  \E i \in TallyIndex :
    /\ ~AirliftCondition(i) /\ ~MapHas(activeSurges, AirliftKey(i))
    /\ Created(FighterKey(i))

----------------------------------------------------------------------------
(* C19: within one call the steps run cleanup first, then per theater:     *)
(* append the cycle's snapshot, estimate the baseline, evaluate surges.    *)
(* The samples of the baseline are the entries cleanup left within the     *)
(* window plus the cycle's own snapshot: with k such entries the defaults  *)
(* are used when k + 1 < 6, else the floored mean over k + 1 samples, the  *)
(* snapshot's counts included.  The surge test sees the alerts cleanup     *)
(* left: an expired airlift alert whose condition holds is created anew,   *)
(* not refreshed.                                                           *)

PriorInWindow(i) ==
  SelectSeq(HistoryBefore(i),
            LAMBDA h : h.timestamp >= calledAt - BASELINE_WINDOW_HOURS * ONE_HOUR)

PriorSum(i, Count(_)) ==
  Sum([j \in 1..Len(PriorInWindow(i)) |-> Count(PriorInWindow(i)[j])])

C19_BaselineCountsOwnSnapshot ==
  \A i \in TallyIndex :
    LET T == Tallies[i].theaterId
        k == Len(PriorInWindow(i))
        b == BaselineOf(i)
    IN /\ AppendedTo(T)
       /\ Snapshot(T).timestamp = calledAt
       /\ Snapshot(T).transportCount = Tallies[i].transportCount
       /\ Snapshot(T).fighterCount = Tallies[i].fighterCount
       /\ Len(HistoryBefore(i)) < 200 =>
            /\ k + 1 < BASELINE_MIN_SAMPLES =>
                 b = [transport |-> [n |-> 3, d |-> 1], fighter |-> [n |-> 2, d |-> 1],
                      recon |-> [n |-> 1, d |-> 1]]
            /\ k + 1 >= BASELINE_MIN_SAMPLES =>
                 /\ IsFlooredMean(b.transport,
                                  PriorSum(i, LAMBDA h : h.transportCount)
                                    + Tallies[i].transportCount, k + 1, 2)
                 /\ IsFlooredMean(b.fighter,
                                  PriorSum(i, LAMBDA h : h.fighterCount)
                                    + Tallies[i].fighterCount, k + 1, 1)
                 /\ IsFlooredMean(b.recon,
                                  PriorSum(i, LAMBDA h : h.reconCount)
                                    + Tallies[i].reconCount, k + 1, 1)
       /\ ( /\ CleanupRan
            /\ AirliftCondition(i)
            /\ MapHas(entry.activeSurges, AirliftKey(i))
            /\ calledAt - MapGet(entry.activeSurges, AirliftKey(i)).lastUpdated > TWO_HOURS )
          => /\ Created(AirliftKey(i))
             /\ MapGet(activeSurges, AirliftKey(i)).firstDetected = calledAt

\* Five entries in the window and the snapshot the sixth sample: 5 transports
\* trigger against the floored mean 2 and would not against the default 3
C19_Witness ==
  \E i \in TallyIndex :
    /\ Len(PriorInWindow(i)) = 5
    /\ Tallies[i].transportCount = 5
    /\ BaselineOf(i).transport = [n |-> 2, d |-> 1]
    /\ BaselineOf(i).fighter = [n |-> 3, d |-> 2]
    /\ Created(AirliftKey(i))

\* Four entries in the window: with the snapshot still fewer than six samples
C19_WitnessDefaults ==
  \E i \in TallyIndex :
    /\ Len(PriorInWindow(i)) = 4
    /\ BaselineOf(i).transport = [n |-> 3, d |-> 1]

\* An expired airlift alert created anew by the call whose cleanup evicted it
C19_WitnessEvictedFirst ==
  \E i \in TallyIndex :
    /\ CleanupRan
    /\ MapHas(entry.activeSurges, AirliftKey(i))
    /\ calledAt - MapGet(entry.activeSurges, AirliftKey(i)).lastUpdated > TWO_HOURS
    /\ Created(AirliftKey(i))

----------------------------------------------------------------------------
(* C20: while analysis keeps being invoked and time advances, every active *)
(* alert is eventually evicted unless it is refreshed: an alert with a      *)
(* given lastUpdated does not stay, and it leaves the active set only by   *)
(* being refreshed or by a cleanup that runs more than 2 hours after its   *)
(* lastUpdated; such a cleanup always removes it.  The clock of the model  *)
(* stops at Horizon, so the alerts followed are those whose eviction is    *)
(* due before the clock stops.                                              *)

AlertKeys == {SurgeId(type, T) : type \in SurgeTypes, T \in TheaterIds}

Holds(k, u) == MapHas(activeSurges, k) /\ MapGet(activeSurges, k).lastUpdated = u

\* The instants u for which u + 2 h, a cleanup interval and one advance fit
\* before Horizon
EarlyTimes ==
  {c * WARM_INTERVAL :
     c \in 0..((Horizon - TWO_HOURS - CLEANUP_INTERVAL - 30 * 60 * 1000) \div WARM_INTERVAL)}

C20_LeavesByEvictionOrRefresh ==
  \A k \in AlertKeys :
    MapHas(activeSurges, k) =>
      LET u == MapGet(activeSurges, k).lastUpdated
      IN /\ (lastCleanup' # lastCleanup /\ now - u > TWO_HOURS)
              => ~MapHas(swept'.activeSurges, k)
         /\ ~(lastCleanup' # lastCleanup /\ now - u > TWO_HOURS)
              => /\ MapHas(activeSurges', k)
                 /\ MapGet(activeSurges', k).firstDetected
                      = MapGet(activeSurges, k).firstDetected
                 /\ MapGet(activeSurges', k).lastUpdated \in {u, now}

\* Some alert last updated at an instant of EarlyTimes is active
EarlyAlertActive == \E k \in AlertKeys : \E u \in EarlyTimes : Holds(k, u)

C20_AlertsEventuallyEvicted ==
  /\ <>[]~EarlyAlertActive
  /\ [][C20_LeavesByEvictionOrRefresh]_vars

\* An idle call whose cleanup evicted an alert more than 2 hours old, which
\* is gone afterwards
C20_Witness ==
  /\ CleanupRan
  /\ flights = <<>>
  /\ \E e \in 1..Len(entry.activeSurges) :
       /\ entry.activeSurges[e].value.lastUpdated \in EarlyTimes
       /\ calledAt - entry.activeSurges[e].value.lastUpdated > TWO_HOURS
       /\ ~MapHas(activeSurges, entry.activeSurges[e].key)

----------------------------------------------------------------------------
(* C21: every active alert, after any sequence of calls including in-place *)
(* airlift updates, has surgeMultiple >= 2 and currentCount >= 5 when its  *)
(* type is airlift, >= 4 when it is fighter; hence the signal of an active *)
(* alert, and the signal last made, has confidence between 0.6 and 0.95.   *)

C21_ActiveAlertsAboveThreshold ==
  /\ \A i \in 1..Len(getActiveSurges) :
       LET a == getActiveSurges[i]
           c == surgeAlertToSignal(a).confidence
       IN /\ a.type \in SurgeTypes
          /\ a.surgeMultiple.d > 0
          /\ a.surgeMultiple.n >= 2 * a.surgeMultiple.d
          /\ a.type = "airlift" => a.currentCount >= 5
          /\ a.type = "fighter" => a.currentCount >= 4
          /\ c.d > 0
          /\ 10 * c.n >= 6 * c.d
          /\ 100 * c.n <= 95 * c.d
  /\ signal # Null =>
       /\ 10 * signal.confidence.n >= 6 * signal.confidence.d
       /\ 100 * signal.confidence.n <= 95 * signal.confidence.d
       /\ signal.metadata.surgeMultiple.n >= 2 * signal.metadata.surgeMultiple.d

\* An airlift alert updated in place to exactly twice the baseline, with the
\* signal made from it at confidence 0.6
C21_Witness ==
  /\ signal # Null
  /\ \E i \in 1..Len(getActiveSurges) :
       /\ getActiveSurges[i].type = "airlift"
       /\ getActiveSurges[i].lastUpdated > getActiveSurges[i].firstDetected
       /\ getActiveSurges[i].surgeMultiple = [n |-> 2, d |-> 1]
       /\ signal = surgeAlertToSignal(getActiveSurges[i])
       /\ signal.confidence = [n |-> 3, d |-> 5]

\* A fighter alert of exactly 4 aircraft at exactly twice the baseline
C21_WitnessFighter ==
  \E i \in 1..Len(getActiveSurges) :
    /\ getActiveSurges[i].type = "fighter"
    /\ getActiveSurges[i].currentCount = 4
    /\ getActiveSurges[i].surgeMultiple = [n |-> 2, d |-> 1]

----------------------------------------------------------------------------
(* C22: a fighter alert's lastUpdated always equals the time of its        *)
(* creation.  So also when the fighter condition holds in the cycle, a     *)
(* cleanup that runs more than 2 hours after the creation evicts the       *)
(* alert, and the same call creates a fresh fighter alert for the theater  *)
(* and returns it; while no such cleanup runs the alert stays as it is.    *)

\* The fighter alert the last call found for tally i is older than 2 hours
\* and the call's cleanup ran
FighterSwept(i) ==
  /\ CleanupRan
  /\ MapHas(entry.activeSurges, FighterKey(i))
  /\ calledAt - MapGet(entry.activeSurges, FighterKey(i)).firstDetected > TWO_HOURS

C22_FighterAlertExpiresAndReturns ==
  /\ \A i \in 1..Len(getActiveSurges) :
       getActiveSurges[i].type = "fighter" =>
         getActiveSurges[i].lastUpdated = getActiveSurges[i].firstDetected
  /\ \A i \in TallyIndex :
       /\ (FighterSwept(i) /\ FighterCondition(i)) =>
            /\ ~MapHas(swept.activeSurges, FighterKey(i))
            /\ Created(FighterKey(i))
            /\ Returned(FighterKey(i))
            /\ MapGet(activeSurges, FighterKey(i)).firstDetected = calledAt
            /\ MapGet(activeSurges, FighterKey(i)).lastUpdated = calledAt
            /\ MapGet(activeSurges, FighterKey(i)).currentCount = Tallies[i].fighterCount
       /\ (FighterSwept(i) /\ ~FighterCondition(i)) =>
            ~MapHas(activeSurges, FighterKey(i))
       /\ (MapHas(entry.activeSurges, FighterKey(i)) /\ ~FighterSwept(i)) =>
            /\ MapHas(activeSurges, FighterKey(i))
            /\ MapGet(activeSurges, FighterKey(i)) = MapGet(entry.activeSurges, FighterKey(i))
            /\ ~Returned(FighterKey(i))

\* A fighter alert evicted by a cleanup more than 2 hours after its creation
\* and created anew and returned by the same call
C22_Witness ==
  \E i \in TallyIndex :
    /\ FighterSwept(i)
    /\ FighterCondition(i)
    /\ Created(FighterKey(i))
    /\ Returned(FighterKey(i))
    /\ MapGet(activeSurges, FighterKey(i)).firstDetected
         > MapGet(entry.activeSurges, FighterKey(i)).firstDetected + TWO_HOURS

\* The fighter condition holds again while the alert is active and not yet
\* due: the alert keeps its creation time
C22_WitnessKept ==
  \E i \in TallyIndex :
    /\ MapHas(entry.activeSurges, FighterKey(i))
    /\ FighterCondition(i)
    /\ calledAt > MapGet(entry.activeSurges, FighterKey(i)).firstDetected
    /\ MapGet(activeSurges, FighterKey(i)).lastUpdated
         = MapGet(entry.activeSurges, FighterKey(i)).firstDetected

----------------------------------------------------------------------------
(* C23: an alert leaves the active set only inside a cleanup and only when *)
(* its lastUpdated is more than 2 hours old.  An alert updated within the  *)
(* last 2 hours is never evicted, a call whose cleanup does not run evicts *)
(* nothing, and an alert that is not evicted stays active with all fields  *)
(* unchanged through a cycle in which its theater's surge condition does   *)
(* not hold or its theater has no flights.                                  *)

\* The tallies of the last call for the theater of alert a
TalliesOf(a) == {i \in TallyIndex : Tallies[i].theaterId = a.theater.id}

\* The surge condition of alert a's own type holds in the last call
ConditionHolds(a) ==
  \E i \in TalliesOf(a) :
    IF a.type = "airlift" THEN AirliftCondition(i) ELSE FighterCondition(i)

C23_AlertsLeaveOnlyByCleanup ==
  /\ ~CleanupRan => swept.activeSurges = entry.activeSurges
  /\ \A e \in 1..Len(entry.activeSurges) :
       LET k == entry.activeSurges[e].key
           a == entry.activeSurges[e].value
       IN /\ ~MapHas(activeSurges, k) =>
               (CleanupRan /\ calledAt - a.lastUpdated > TWO_HOURS)
          /\ calledAt - a.lastUpdated <= TWO_HOURS =>
               /\ MapHas(swept.activeSurges, k)
               /\ MapGet(swept.activeSurges, k) = a
               /\ MapHas(activeSurges, k)
          /\ (MapHas(swept.activeSurges, k) /\ ~ConditionHolds(a)) =>
               /\ MapHas(activeSurges, k)
               /\ MapGet(activeSurges, k) = a

\* An alert kept unchanged by a later call in which its theater has flights
\* and its condition fails
C23_Witness ==
  \E e \in 1..Len(entry.activeSurges) :
    LET k == entry.activeSurges[e].key
        a == entry.activeSurges[e].value
    IN /\ calledAt > a.lastUpdated
       /\ TalliesOf(a) # {}
       /\ ~ConditionHolds(a)
       /\ MapHas(activeSurges, k)
       /\ MapGet(activeSurges, k) = a

\* An alert kept unchanged by a later call without flights in its theater
\* whose cleanup ran, the alert being exactly 2 hours old
C23_WitnessNoFlights ==
  \E e \in 1..Len(entry.activeSurges) :
    LET k == entry.activeSurges[e].key
        a == entry.activeSurges[e].value
    IN /\ CleanupRan
       /\ calledAt - a.lastUpdated = TWO_HOURS
       /\ TalliesOf(a) = {}
       /\ MapHas(activeSurges, k)
       /\ MapGet(activeSurges, k) = a

\* An alert more than 2 hours old that outlives a call whose cleanup was not due
C23_WitnessNotDue ==
  \E e \in 1..Len(entry.activeSurges) :
    /\ ~CleanupRan
    /\ calledAt - entry.activeSurges[e].value.lastUpdated > TWO_HOURS
    /\ MapHas(activeSurges, entry.activeSurges[e].key)

----------------------------------------------------------------------------
(* C24: when an analysis call made at time t returns, every active alert   *)
(* has lastUpdated later than t - 3 hours: the last cleanup ran less than  *)
(* 1 hour before t or the module was loaded less than 1 hour before t, and *)
(* a cleanup leaves no alert more than 2 hours old.                         *)

C24_AlertsYoungerThanThreeHours ==
  /\ calledAt - lastCleanup < CLEANUP_INTERVAL
  /\ lastCleanup <= calledAt
  /\ \A i \in 1..Len(getActiveSurges) :
       /\ getActiveSurges[i].lastUpdated > calledAt - 3 * ONE_HOUR
       /\ getActiveSurges[i].lastUpdated <= calledAt
       /\ getActiveSurges[i].lastUpdated >= lastCleanup - TWO_HOURS

\* A call returns with an alert last updated 2 hours 30 minutes before: it was
\* exactly 2 hours old at the last cleanup, 30 minutes earlier
C24_Witness ==
  /\ ~CleanupRan
  /\ \E i \in 1..Len(getActiveSurges) :
       /\ calledAt - getActiveSurges[i].lastUpdated = 5 * (ONE_HOUR \div 2)
       /\ lastCleanup - getActiveSurges[i].lastUpdated = TWO_HOURS

----------------------------------------------------------------------------
(* C25: a call in which no flight resolves to theater T appends no         *)
(* snapshot to T's history, estimates no baseline for T and creates or     *)
(* updates no alert of T: after the call T's history and alerts are what   *)
(* cleanup left.  Hence every stored snapshot lists at least one flight    *)
(* (totalMilitary >= 1), and a cycle without traffic in T adds no sample   *)
(* to T's history.                                                          *)

\* No flight of the last call resolves to theater id T
NoTraffic(T) ==
  \A i \in FlightIndex :
    \/ getTheaterForFlight(flights[i]) = Null
    \/ getTheaterForFlight(flights[i]).id # T

\* Every snapshot of history map m lists at least one flight
AllWithTraffic(m) ==
  \A e \in 1..Len(m) : \A j \in 1..Len(m[e].value) :
    /\ m[e].value[j].totalMilitary >= 1
    /\ m[e].value[j].totalMilitary = Len(m[e].value[j].flightIds)
    /\ m[e].value[j].theaterId = m[e].key

C25_NoTrafficNoSnapshot ==
  /\ \A T \in TheaterIds :
       NoTraffic(T) =>
         /\ HistoryOf(activityHistory, T) = HistoryOf(swept.activityHistory, T)
         /\ ~MapHas(baselineUsed, T)
         /\ \A type \in SurgeTypes :
              /\ Untouched(SurgeId(type, T))
              /\ ~Returned(SurgeId(type, T))
  /\ \A T \in TheaterIds :
       ~NoTraffic(T) =>
         /\ AppendedTo(T)
         /\ Snapshot(T).timestamp = calledAt
         /\ Snapshot(T).totalMilitary
              = Cardinality({i \in FlightIndex :
                               /\ getTheaterForFlight(flights[i]) # Null
                               /\ getTheaterForFlight(flights[i]).id = T})
  /\ AllWithTraffic(activityHistory)
  /\ AllWithTraffic(swept.activityHistory)

\* A later call with traffic in one theater only: another theater keeps its
\* history and its alert, from which the call's cleanup pruned nothing
C25_Witness ==
  \E T \in TheaterIds : \E U \in TheaterIds :
    /\ NoTraffic(T)
    /\ ~NoTraffic(U)
    /\ HistoryOf(activityHistory, T) # <<>>
    /\ HistoryOf(activityHistory, T)[Len(HistoryOf(activityHistory, T))].timestamp < calledAt
    /\ \E type \in SurgeTypes : MapHas(activeSurges, SurgeId(type, T))

\* A call without any flight whose cleanup pruned part of a theater's history
C25_WitnessCleanupOnly ==
  /\ flights = <<>>
  /\ CleanupRan
  /\ \E T \in TheaterIds :
       /\ HistoryOf(activityHistory, T) # <<>>
       /\ Len(HistoryOf(activityHistory, T)) < Len(HistoryOf(entry.activityHistory, T))

====
